---------------------------- MODULE Spec2Model ----------------------------
(***************************************************************************)
(* CHIP-8 interpreter (src/src/chip8.rs) and its step debugger             *)
(* (src/src/debugger.rs) as a state machine.                               *)
(*                                                                         *)
(* Numbers: u8 values are 0..255, u16 values 0..65535, usize values are    *)
(* naturals.  Instants and Durations are integer nanoseconds.              *)
(* execution_speed (an f32 in the source) is kept in tenths, so 1.0 is 10  *)
(* and the "+= 0.1" of the debugger is +1.                                 *)
(*                                                                         *)
(* The two byte arrays, memory: [u8; 4096] and display: [u8; 64 * 32], are *)
(* kept as the function from the indices that hold a non-zero byte to that *)
(* byte: Get reads 0 at every other index and Put never stores a 0, so two *)
(* arrays are equal exactly when their functions are.  The arrays' lengths *)
(* are MemSize and DisplaySize, and every index the source uses is checked *)
(* against them where the source's bounds check panics.                    *)
(***************************************************************************)
EXTENDS Integers, Sequences, FiniteSets, TLC

(***************************************************************************)
(* Program constants.                                                      *)
(***************************************************************************)
MemSize == 4096
DisplayWidth == 64
DisplayHeight == 32
NumRegs == 16
NumKeys == 16
ProgramStart == 512
FontBytes == 80
InstrHz == 700
TimerHz == 60
NormalSpeed == 10
SlowSpeed == 1
SpeedStep == 1

(***************************************************************************)
(* Bounds of the model.                                                    *)
(***************************************************************************)
\* The wall clock, in milliseconds, after which no frame begins.
MaxNowMs == 69
\* Largest difference, in nanoseconds, between two successive reads of the
\* clock inside one handler.
MaxSkew == 1
\* Largest execution_speed (in tenths) the speed-up key is pressed at.
MaxSpeed == 11
\* Largest deadline (in milliseconds) up to which TickSpec single-steps.
MaxStepMs == 8
\* The same for TimerSpec, which steps through three timer periods.
MaxTimerMs == 52
\* The same for AddISpec, which adds 255 to I until it passes 65535.
MaxAddIMs == 690
\* The same for CallSpec, which steps through two nested calls.
MaxCallMs == 12
\* The same for RunningTimersSpec, which steps past the second timer tick.
MaxRunMs == 18
\* The wall clock of RestoreSpec stops here: three frames.
MaxRestoreMs == 52
\* The time between two frames (calls of update), in milliseconds.
FrameMs == 17

NsPerMs == 1000 * 1000
NsPerSec == 1000 * NsPerMs

DisplaySize == DisplayWidth * DisplayHeight
Byte == 0..255
Reg == 0..(NumRegs - 1)
Cell == 0..(DisplaySize - 1)

(***************************************************************************)
(* Bit operations on naturals, as the source applies them to u8 and u16.   *)
(***************************************************************************)
RECURSIVE BitAnd(_, _)
BitAnd(a, b) ==
    IF a = 0 \/ b = 0 THEN 0
    ELSE (a % 2) * (b % 2) + 2 * BitAnd(a \div 2, b \div 2)

RECURSIVE BitOr(_, _)
BitOr(a, b) ==
    IF a = 0 THEN b
    ELSE IF b = 0 THEN a
    ELSE (IF a % 2 = 1 \/ b % 2 = 1 THEN 1 ELSE 0) + 2 * BitOr(a \div 2, b \div 2)

RECURSIVE BitXor(_, _)
BitXor(a, b) ==
    IF a = 0 THEN b
    ELSE IF b = 0 THEN a
    ELSE ((a + b) % 2) + 2 * BitXor(a \div 2, b \div 2)

RECURSIVE Pow2(_)
Pow2(k) == IF k = 0 THEN 1 ELSE 2 * Pow2(k - 1)

\* a >> k
Shr(a, k) == a \div Pow2(k)

\* a << k on a u8 (bits shifted out are lost)
Shl8(a, k) == (a * Pow2(k)) % 256

\* u8::wrapping_add
WrappingAdd8(a, b) == (a + b) % 256

\* u8::overflowing_add: <<result, did_overflow>>
OverflowingAdd8(a, b) == << (a + b) % 256, a + b > 255 >>

\* u8::overflowing_sub: <<result, did_overflow>>
OverflowingSub8(a, b) == << (a - b + 256) % 256, a < b >>

(***************************************************************************)
(* Byte arrays (see the head of the module).                               *)
(***************************************************************************)
\* [0; N]
Zeroes == [a \in {} |-> 0]

\* arr[a]
Get(arr, a) == IF a \in DOMAIN arr THEN arr[a] ELSE 0

\* arr[a] = b
Put(arr, a, b) ==
    IF b = 0 THEN [x \in (DOMAIN arr) \ {a} |-> arr[x]]
    ELSE [x \in (DOMAIN arr) \cup {a} |-> IF x = a THEN b ELSE arr[x]]

(***************************************************************************)
(* OpCodes and TryFrom<u16> for OpCodes.  A decoded opcode is a record     *)
(* [op |-> variant name, args |-> the variant's operands].                 *)
(***************************************************************************)
Mk(name, args) == [op |-> name, args |-> args]

\* a decoder of the 8XY_ group that delivers the operands in the other order
Decode8Swapped(v, x, y) ==
    LET sel == BitAnd(v, 61455)
    IN  CASE sel = 32768 -> Mk("LdVxVy", <<y, x>>)
          [] sel = 32769 -> Mk("OrVxVy", <<y, x>>)
          [] sel = 32770 -> Mk("AndVxVy", <<y, x>>)
          [] sel = 32771 -> Mk("XorVxVy", <<y, x>>)
          [] sel = 32772 -> Mk("AddVxVy", <<y, x>>)
          [] sel = 32773 -> Mk("SubVxVy", <<y, x>>)
          [] sel = 32774 -> Mk("ShrVxVy", <<y, x>>)
          [] sel = 32775 -> Mk("SubnVxVy", <<y, x>>)
          [] sel = 32782 -> Mk("ShlVxVy", <<y, x>>)
          [] OTHER -> Mk("Unkn", <<v>>)

Decode8(v, x, y) ==
    LET sel == BitAnd(v, 61455)
    IN  CASE sel = 32768 -> Mk("LdVxVy", <<x, y>>)
          [] sel = 32769 -> Mk("OrVxVy", <<x, y>>)
          [] sel = 32770 -> Mk("AndVxVy", <<x, y>>)
          [] sel = 32771 -> Mk("XorVxVy", <<x, y>>)
          [] sel = 32772 -> Mk("AddVxVy", <<x, y>>)
          [] sel = 32773 -> Mk("SubVxVy", <<x, y>>)
          [] sel = 32774 -> Mk("ShrVxVy", <<x, y>>)
          [] sel = 32775 -> Mk("SubnVxVy", <<x, y>>)
          [] sel = 32782 -> Mk("ShlVxVy", <<x, y>>)
          [] OTHER -> Mk("Unkn", <<v>>)

DecodeE(v, x) ==
    LET sel == BitAnd(v, 61695)
    IN  CASE sel = 57502 -> Mk("SkpVx", <<x>>)
          [] sel = 57505 -> Mk("SknpVx", <<x>>)
          [] OTHER -> Mk("Unkn", <<v>>)

DecodeF(v, x) ==
    LET sel == BitAnd(v, 61695)
    IN  CASE sel = 61461 -> Mk("LdDtVx", <<x>>)
          [] sel = 61525 -> Mk("LdIVx", <<x>>)
          [] sel = 61541 -> Mk("LdVxI", <<x>>)
          [] sel = 61447 -> Mk("LdVxDt", <<x>>)
          [] sel = 61450 -> Mk("LdVxK", <<x>>)
          [] sel = 61464 -> Mk("LdStVx", <<x>>)
          [] sel = 61481 -> Mk("LdFVx", <<x>>)
          [] sel = 61491 -> Mk("LdBVx", <<x>>)
          [] sel = 61470 -> Mk("AddIVx", <<x>>)
          [] OTHER -> Mk("Unkn", <<v>>)

Decode(v) ==
    LET nnn == BitAnd(v, 4095)
        byte1 == BitAnd(v, 255)
        nib1 == Shr(BitAnd(v, 3840), 8)
        nib2 == Shr(BitAnd(v, 240), 4)
        nib3 == BitAnd(v, 15)
        top == BitAnd(v, 61440)
    IN  CASE top = 0 ->
                (CASE v = 238 -> Mk("Ret", <<>>)
                   [] v = 224 -> Mk("Cls", <<>>)
                   [] OTHER -> Mk("Unkn", <<v>>))
          [] top = 4096 -> Mk("Jmp", <<nnn>>)
          [] top = 8192 -> Mk("Call", <<nnn>>)
          [] top = 12288 -> Mk("SeVxNn", <<nib1, byte1>>)
          [] top = 16384 -> Mk("SneVxNn", <<nib1, byte1>>)
          [] top = 20480 -> Mk("SeVxVy", <<nib1, nib2>>)
          [] top = 24576 -> Mk("LdVxNn", <<nib1, byte1>>)
          [] top = 28672 -> Mk("AddVxNn", <<nib1, byte1>>)
          [] top = 32768 -> Decode8(v, nib1, nib2)
          [] top = 36864 -> Mk("SneVxVy", <<nib1, nib2>>)
          [] top = 40960 -> Mk("LdINn", <<nnn>>)
          [] top = 45056 -> Mk("JmpV0Nnn", <<nnn>>)
          [] top = 49152 -> Mk("RndVxNn", <<nib1, byte1>>)
          [] top = 53248 -> Mk("DrawVxVyN", <<nib1, nib2, nib3>>)
          [] top = 57344 -> DecodeE(v, nib1)
          [] top = 61440 -> DecodeF(v, nib1)
          [] OTHER -> Mk("Unkn", <<v>>)


(***************************************************************************)
(* struct Chip8.  The machine is one record; a snapshot is a value of it.  *)
(***************************************************************************)
\* the bit pattern the comments of enum OpCodes give for each variant
Encode(o) ==
    LET a == o.args
    IN  CASE o.op = "Cls" -> 224
          [] o.op = "Ret" -> 238
          [] o.op = "Jmp" -> 4096 + a[1]
          [] o.op = "Call" -> 8192 + a[1]
          [] o.op = "SeVxNn" -> 12288 + 256 * a[1] + a[2]
          [] o.op = "SneVxNn" -> 16384 + 256 * a[1] + a[2]
          [] o.op = "SeVxVy" -> 20480 + 256 * a[1] + 16 * a[2]
          [] o.op = "LdVxNn" -> 24576 + 256 * a[1] + a[2]
          [] o.op = "AddVxNn" -> 28672 + 256 * a[1] + a[2]
          [] o.op = "LdVxVy" -> 32768 + 256 * a[1] + 16 * a[2]
          [] o.op = "OrVxVy" -> 32769 + 256 * a[1] + 16 * a[2]
          [] o.op = "AndVxVy" -> 32770 + 256 * a[1] + 16 * a[2]
          [] o.op = "XorVxVy" -> 32771 + 256 * a[1] + 16 * a[2]
          [] o.op = "AddVxVy" -> 32772 + 256 * a[1] + 16 * a[2]
          [] o.op = "SubVxVy" -> 32773 + 256 * a[1] + 16 * a[2]
          [] o.op = "ShrVxVy" -> 32774 + 256 * a[1] + 16 * a[2]
          [] o.op = "SubnVxVy" -> 32775 + 256 * a[1] + 16 * a[2]
          [] o.op = "ShlVxVy" -> 32782 + 256 * a[1] + 16 * a[2]
          [] o.op = "SneVxVy" -> 36864 + 256 * a[1] + 16 * a[2]
          [] o.op = "LdINn" -> 40960 + a[1]
          [] o.op = "JmpV0Nnn" -> 45056 + a[1]
          [] o.op = "RndVxNn" -> 49152 + 256 * a[1] + a[2]
          [] o.op = "DrawVxVyN" -> 53248 + 256 * a[1] + 16 * a[2] + a[3]
          [] o.op = "SkpVx" -> 57502 + 256 * a[1]
          [] o.op = "SknpVx" -> 57505 + 256 * a[1]
          [] o.op = "LdVxDt" -> 61447 + 256 * a[1]
          [] o.op = "LdVxK" -> 61450 + 256 * a[1]
          [] o.op = "LdDtVx" -> 61461 + 256 * a[1]
          [] o.op = "LdStVx" -> 61464 + 256 * a[1]
          [] o.op = "AddIVx" -> 61470 + 256 * a[1]
          [] o.op = "LdFVx" -> 61481 + 256 * a[1]
          [] o.op = "LdBVx" -> 61491 + 256 * a[1]
          [] o.op = "LdIVx" -> 61525 + 256 * a[1]
          [] o.op = "LdVxI" -> 61541 + 256 * a[1]

Font ==
    << 240, 144, 144, 144, 240,   32,  96,  32,  32, 112,
       240,  16, 240, 128, 240,  240,  16, 240,  16, 240,
       144, 144, 240,  16,  16,  240, 128, 240,  16, 240,
       240, 128, 240, 144, 240,  240,  16,  32,  64,  64,
       240, 144, 240, 144, 240,  240, 144, 240,  16, 240,
       240, 144, 240, 144, 144,  224, 144, 224, 144, 224,
       240, 128, 128, 128, 240,  224, 144, 144, 144, 224,
       240, 128, 240, 128, 240,  240, 128, 240, 128, 128 >>

\* Chip8::new, with the two Instant::now() reads t0 <= t1
New(t0, t1) ==
    [ memory |-> Zeroes,
      v |-> [x \in Reg |-> 0],
      pc |-> ProgramStart,
      st |-> 0,
      dt |-> 0,
      i |-> 0,
      display |-> Zeroes,
      stack |-> <<>>,
      mode |-> "Chip8",
      keys |-> [k \in 0..(NumKeys - 1) |-> FALSE],
      next_tick |-> t0,
      next_timers_tick |-> t1,
      sound_playing |-> FALSE,
      execution_speed |-> NormalSpeed ]

\* Chip8::load of a program image (a sequence of bytes) that fits in memory
Load(c, image) ==
    LET byte(a) == IF a < FontBytes THEN Font[a + 1]
                   ELSE image[a - ProgramStart + 1]
        written == (0..(FontBytes - 1))
                     \cup (ProgramStart..(ProgramStart + Len(image) - 1))
    IN  [c EXCEPT !.memory = [a \in {b \in written : byte(b) # 0} |-> byte(a)]]

\* Duration::from_secs_f32(1.0 / (hz * execution_speed)) in nanoseconds
Period(hz, speed) ==
    LET d == hz * speed
    IN  (NsPerSec \div d) * 10 + ((NsPerSec % d) * 10) \div d

(***************************************************************************)
(* Chip8::tick.  The result of executing code that may panic is a record   *)
(* [c |-> the machine when it returned or panicked, ok |-> it returned].   *)
(***************************************************************************)
Ok(c) == [c |-> c, ok |-> TRUE]
Panic(c) == [c |-> c, ok |-> FALSE]

\* the word at pc, u16::from_be_bytes(memory[pc..pc + 2])
Fetch(c) == Get(c.memory, c.pc) * 256 + Get(c.memory, c.pc + 1)

ExecCls(c) == Ok([c EXCEPT !.display = Zeroes])

ExecLdINn(c, n) == Ok([c EXCEPT !.i = n])

ExecRndVxNn(c, x, n, rnd) == Ok([c EXCEPT !.v[x] = BitAnd(n, rnd)])

ExecLdVxNn(c, x, n) == Ok([c EXCEPT !.v[x] = n])

\* a draw loop that raises VF for every cell it toggles
RECURSIVE DrawLineFlagsToggle(_, _, _, _, _, _)
DrawLineFlagsToggle(display, vf, x, row, line, dx) ==
    IF dx >= 8 \/ (x + dx) >= DisplayWidth THEN <<display, vf>>
    ELSE LET loc == x + dx + row * DisplayWidth
             on == BitAnd(Shr(128, dx), line) # 0
         IN  DrawLineFlagsToggle(
                 IF on THEN Put(display, loc, BitXor(Get(display, loc), 255))
                 ELSE display,
                 IF on THEN 1 ELSE vf, x, row, line, dx + 1)

\* a draw loop that toggles the lowest bit of a cell only
RECURSIVE DrawLineLowBit(_, _, _, _, _, _)
DrawLineLowBit(display, vf, x, row, line, dx) ==
    IF dx >= 8 \/ (x + dx) >= DisplayWidth THEN <<display, vf>>
    ELSE LET loc == x + dx + row * DisplayWidth
             cur == Get(display, loc)
             d1 == IF BitAnd(Shr(128, dx), line) # 0
                   THEN Put(display, loc, BitXor(cur, 1))
                   ELSE display
             vf1 == IF cur = 255 /\ Get(d1, loc) = 0 THEN 1 ELSE vf
         IN  DrawLineLowBit(d1, vf1, x, row, line, dx + 1)

\* the inner loop of DrawVxVyN over dx: <<display, VF>>
RECURSIVE DrawLine(_, _, _, _, _, _)
DrawLine(display, vf, x, row, line, dx) ==
    IF dx >= 8 \/ (x + dx) >= DisplayWidth THEN <<display, vf>>
    ELSE LET loc == x + dx + row * DisplayWidth
             cur == Get(display, loc)
             d1 == IF BitAnd(Shr(128, dx), line) # 0
                   THEN Put(display, loc, BitXor(cur, 255))
                   ELSE display
             vf1 == IF cur = 255 /\ Get(d1, loc) = 0 THEN 1 ELSE vf
         IN  DrawLine(d1, vf1, x, row, line, dx + 1)

\* the outer loop of DrawVxVyN over dy
RECURSIVE DrawRows(_, _, _, _, _)
DrawRows(c, x, y, n, dy) ==
    IF dy >= n \/ (y + dy) >= DisplayHeight THEN Ok(c)
    ELSE IF c.i + dy >= MemSize THEN Panic(c)
    ELSE LET r == DrawLine(c.display, c.v[15], x, y + dy, Get(c.memory, c.i + dy), 0)
         IN  DrawRows([c EXCEPT !.display = r[1], !.v[15] = r[2]], x, y, n, dy + 1)

ExecDrawVxVyN(c, vx, vy, n) ==
    LET c1 == [c EXCEPT !.v[15] = 0]
        x == c1.v[vx] % DisplayWidth
        y == c1.v[vy] % DisplayHeight
    IN  DrawRows(c1, x, y, n, 0)

ExecSkpVx(c, x) ==
    IF c.v[x] >= NumKeys THEN Panic(c)
    ELSE IF c.keys[c.v[x]] THEN Ok([c EXCEPT !.pc = @ + 2]) ELSE Ok(c)

ExecSknpVx(c, x) ==
    IF c.v[x] >= NumKeys THEN Panic(c)
    ELSE IF ~c.keys[c.v[x]] THEN Ok([c EXCEPT !.pc = @ + 2]) ELSE Ok(c)

\* an add-immediate that records the carry in VF
ExecAddVxNnCarry(c, x, n) ==
    LET c1 == [c EXCEPT !.v[x] = WrappingAdd8(@, n)]
    IN  Ok([c1 EXCEPT !.v[15] = IF c.v[x] + n > 255 THEN 1 ELSE 0])

ExecAddVxNn(c, x, n) == Ok([c EXCEPT !.v[x] = WrappingAdd8(@, n)])

ExecJmp(c, n) == Ok([c EXCEPT !.pc = n])

ExecJmpV0Nnn(c, n) == Ok([c EXCEPT !.pc = n + c.v[0]])

ExecSeVxNn(c, x, n) == IF c.v[x] = n THEN Ok([c EXCEPT !.pc = @ + 2]) ELSE Ok(c)

ExecSneVxNn(c, x, n) == IF c.v[x] # n THEN Ok([c EXCEPT !.pc = @ + 2]) ELSE Ok(c)

ExecSeVxVy(c, x, y) == IF c.v[x] = c.v[y] THEN Ok([c EXCEPT !.pc = @ + 2]) ELSE Ok(c)

ExecSneVxVy(c, x, y) == IF c.v[x] # c.v[y] THEN Ok([c EXCEPT !.pc = @ + 2]) ELSE Ok(c)

\* a call that pushes the address the call was fetched from
ExecCallPushFetched(c, n) == Ok([c EXCEPT !.stack = Append(@, c.pc - 2), !.pc = n])

ExecCall(c, n) == Ok([c EXCEPT !.stack = Append(@, c.pc), !.pc = n])

\* a return that goes on to the next word when the stack is empty
ExecRetUnchecked(c) ==
    IF c.stack = <<>> THEN Ok(c)
    ELSE Ok([c EXCEPT !.pc = c.stack[Len(c.stack)],
                      !.stack = SubSeq(@, 1, Len(@) - 1)])

ExecRet(c) ==
    IF c.stack = <<>> THEN Panic(c)
    ELSE Ok([c EXCEPT !.pc = c.stack[Len(c.stack)],
                      !.stack = SubSeq(@, 1, Len(@) - 1)])

ExecLdVxVy(c, x, y) == Ok([c EXCEPT !.v[x] = c.v[y]])

ExecOrVxVy(c, x, y) == Ok([c EXCEPT !.v[x] = BitOr(@, c.v[y])])

ExecAndVxVy(c, x, y) == Ok([c EXCEPT !.v[x] = BitAnd(@, c.v[y])])

ExecXorVxVy(c, x, y) == Ok([c EXCEPT !.v[x] = BitXor(@, c.v[y])])

\* the two writes in the other order: v[0xf] = flag, then v[x] = result
SetFlagThenResult(c, x, r) ==
    LET c1 == [c EXCEPT !.v[15] = IF r[2] THEN 1 ELSE 0]
    IN  Ok([c1 EXCEPT !.v[x] = r[1]])

\* v[x] = result, then v[0xf] = flag
SetResultThenFlag(c, x, r) ==
    LET c1 == [c EXCEPT !.v[x] = r[1]]
    IN  Ok([c1 EXCEPT !.v[15] = IF r[2] THEN 1 ELSE 0])

ExecAddVxVy(c, x, y) == SetResultThenFlag(c, x, OverflowingAdd8(c.v[x], c.v[y]))

ExecSubVxVy(c, x, y) == SetResultThenFlag(c, x, OverflowingSub8(c.v[x], c.v[y]))

ExecSubnVxVy(c, x, y) == SetResultThenFlag(c, x, OverflowingSub8(c.v[y], c.v[x]))

ExecShrVxVy(c, x, y) ==
    LET c1 == IF c.mode = "Chip8" THEN [c EXCEPT !.v[x] = c.v[y]] ELSE c
        c2 == [c1 EXCEPT !.v[15] = BitAnd(c1.v[x], 1)]
    IN  Ok([c2 EXCEPT !.v[x] = Shr(@, 1)])

ExecShlVxVy(c, x, y) ==
    LET c1 == IF c.mode = "Chip8" THEN [c EXCEPT !.v[x] = c.v[y]] ELSE c
        c2 == [c1 EXCEPT !.v[15] = Shr(c1.v[x], 7)]
    IN  Ok([c2 EXCEPT !.v[x] = Shl8(@, 1)])

\* for dx in 0..x + 1 { memory[i + dx] = v[dx] }
RECURSIVE StoreRegs(_, _, _)
StoreRegs(c, x, dx) ==
    IF dx >= x + 1 THEN Ok(c)
    ELSE IF c.i + dx >= MemSize THEN Panic(c)
    ELSE StoreRegs([c EXCEPT !.memory = Put(@, c.i + dx, c.v[dx])], x, dx + 1)

ExecLdIVx(c, x) == StoreRegs(c, x, 0)

\* for dx in 0..x + 1 { v[dx] = memory[i + dx] }
RECURSIVE LoadRegs(_, _, _)
LoadRegs(c, x, dx) ==
    IF dx >= x + 1 THEN Ok(c)
    ELSE IF c.i + dx >= MemSize THEN Panic(c)
    ELSE LoadRegs([c EXCEPT !.v[dx] = Get(c.memory, c.i + dx)], x, dx + 1)

ExecLdVxI(c, x) == LoadRegs(c, x, 0)

\* keys.iter().position(|&b| b): the set of pressed keys, its minimum taken
PressedKeys(c) == {k \in 0..(NumKeys - 1) : c.keys[k]}

\* a key wait that does not move the program counter back
ExecLdVxKNoRepeat(c, x) ==
    IF PressedKeys(c) # {}
    THEN Ok([c EXCEPT !.v[x] =
                CHOOSE k \in PressedKeys(c) : \A j \in PressedKeys(c) : k <= j])
    ELSE Ok(c)

ExecLdVxK(c, x) ==
    IF PressedKeys(c) # {}
    THEN Ok([c EXCEPT !.v[x] =
                CHOOSE k \in PressedKeys(c) : \A j \in PressedKeys(c) : k <= j])
    ELSE Ok([c EXCEPT !.pc = @ - 2])

ExecLdStVx(c, x) == Ok([c EXCEPT !.st = c.v[x]])

\* a delay-timer load that sets the sound timer as well
ExecLdDtVxBothTimers(c, x) == Ok([c EXCEPT !.dt = c.v[x], !.st = c.v[x]])

ExecLdDtVx(c, x) == Ok([c EXCEPT !.dt = c.v[x]])

ExecLdVxDt(c, x) == Ok([c EXCEPT !.v[x] = c.dt])

\* (v[x] * 0x5) as u16: the product is a u8; with overflow checks (chk) an
\* overflowing product panics, without them it wraps
ExecLdFVx(c, x, chk) ==
    IF c.v[x] * 5 > 255 /\ chk THEN Panic(c)
    ELSE Ok([c EXCEPT !.i = (c.v[x] * 5) % 256])

\* i += v[x] as u16, with or without overflow checks
ExecAddIVx(c, x, chk) ==
    IF c.i + c.v[x] > 65535 /\ chk THEN Panic(c)
    ELSE Ok([c EXCEPT !.i = (c.i + c.v[x]) % 65536])

\* a digit store whose middle byte is Vx / 10, not reduced modulo 10
ExecLdBVxTensNotReduced(c, x) ==
    IF c.i >= MemSize THEN Panic(c)
    ELSE LET c1 == [c EXCEPT !.memory = Put(@, c.i, c.v[x] \div 100)]
         IN  IF c.i + 1 >= MemSize THEN Panic(c1)
             ELSE LET c2 == [c1 EXCEPT !.memory = Put(@, c.i + 1, c.v[x] \div 10)]
                  IN  IF c.i + 2 >= MemSize THEN Panic(c2)
                      ELSE Ok([c2 EXCEPT !.memory = Put(@, c.i + 2, c.v[x] % 10)])

ExecLdBVx(c, x) ==
    IF c.i >= MemSize THEN Panic(c)
    ELSE LET c1 == [c EXCEPT !.memory = Put(@, c.i, c.v[x] \div 100)]
         IN  IF c.i + 1 >= MemSize THEN Panic(c1)
             ELSE LET c2 == [c1 EXCEPT !.memory = Put(@, c.i + 1, (c.v[x] \div 10) % 10)]
                  IN  IF c.i + 2 >= MemSize THEN Panic(c2)
                      ELSE Ok([c2 EXCEPT !.memory = Put(@, c.i + 2, c.v[x] % 10)])

\* the match of Chip8::tick; c is the machine after "pc += 2"
Execute(c, o, rnd, chk) ==
    LET a == o.args
    IN  CASE o.op = "Unkn" -> Panic(c)
          [] o.op = "Cls" -> ExecCls(c)
          [] o.op = "LdINn" -> ExecLdINn(c, a[1])
          [] o.op = "RndVxNn" -> ExecRndVxNn(c, a[1], a[2], rnd)
          [] o.op = "LdVxNn" -> ExecLdVxNn(c, a[1], a[2])
          [] o.op = "DrawVxVyN" -> ExecDrawVxVyN(c, a[1], a[2], a[3])
          [] o.op = "SkpVx" -> ExecSkpVx(c, a[1])
          [] o.op = "SknpVx" -> ExecSknpVx(c, a[1])
          [] o.op = "AddVxNn" -> ExecAddVxNn(c, a[1], a[2])
          [] o.op = "Jmp" -> ExecJmp(c, a[1])
          [] o.op = "JmpV0Nnn" -> ExecJmpV0Nnn(c, a[1])
          [] o.op = "SeVxNn" -> ExecSeVxNn(c, a[1], a[2])
          [] o.op = "SneVxNn" -> ExecSneVxNn(c, a[1], a[2])
          [] o.op = "SeVxVy" -> ExecSeVxVy(c, a[1], a[2])
          [] o.op = "SneVxVy" -> ExecSneVxVy(c, a[1], a[2])
          [] o.op = "Call" -> ExecCall(c, a[1])
          [] o.op = "Ret" -> ExecRet(c)
          [] o.op = "LdVxVy" -> ExecLdVxVy(c, a[1], a[2])
          [] o.op = "OrVxVy" -> ExecOrVxVy(c, a[1], a[2])
          [] o.op = "AndVxVy" -> ExecAndVxVy(c, a[1], a[2])
          [] o.op = "XorVxVy" -> ExecXorVxVy(c, a[1], a[2])
          [] o.op = "AddVxVy" -> ExecAddVxVy(c, a[1], a[2])
          [] o.op = "SubVxVy" -> ExecSubVxVy(c, a[1], a[2])
          [] o.op = "SubnVxVy" -> ExecSubnVxVy(c, a[1], a[2])
          [] o.op = "ShrVxVy" -> ExecShrVxVy(c, a[1], a[2])
          [] o.op = "ShlVxVy" -> ExecShlVxVy(c, a[1], a[2])
          [] o.op = "LdIVx" -> ExecLdIVx(c, a[1])
          [] o.op = "LdVxI" -> ExecLdVxI(c, a[1])
          [] o.op = "LdVxK" -> ExecLdVxK(c, a[1])
          [] o.op = "LdStVx" -> ExecLdStVx(c, a[1])
          [] o.op = "LdDtVx" -> ExecLdDtVx(c, a[1])
          [] o.op = "LdVxDt" -> ExecLdVxDt(c, a[1])
          [] o.op = "LdFVx" -> ExecLdFVx(c, a[1], chk)
          [] o.op = "AddIVx" -> ExecAddIVx(c, a[1], chk)
          [] o.op = "LdBVx" -> ExecLdBVx(c, a[1])

\* Chip8::tick: the slice memory[pc..pc + 2] panics when it leaves memory
Tick(c, rnd, chk) ==
    IF c.pc + 2 > MemSize THEN Panic(c)
    ELSE Execute([c EXCEPT !.pc = @ + 2], Decode(Fetch(c)), rnd, chk)

\* a timer tick whose decrements wrap
TimerTickWrapping(c) ==
    [c EXCEPT !.st = (@ + 255) % 256,
              !.dt = (@ + 255) % 256,
              !.next_timers_tick = @ + Period(TimerHz, c.execution_speed)]

\* a timer tick that moves its deadline by two periods
TimerTickSkipping(c) ==
    [c EXCEPT !.st = IF @ > 0 THEN @ - 1 ELSE @,
              !.dt = IF @ > 0 THEN @ - 1 ELSE @,
              !.next_timers_tick = @ + 2 * Period(TimerHz, c.execution_speed)]

\* the first branch of Chip8::step_debug: one timer tick
TimerTick(c) ==
    [c EXCEPT !.st = IF @ > 0 THEN @ - 1 ELSE @,
              !.dt = IF @ > 0 THEN @ - 1 ELSE @,
              !.next_timers_tick = @ + Period(TimerHz, c.execution_speed)]

\* a flag that is raised with the sound timer and never lowered
UpdateSoundStartOnly(c) ==
    IF c.st > 0 /\ ~c.sound_playing THEN [c EXCEPT !.sound_playing = TRUE]
    ELSE c

\* the end of Chip8::step_debug: the sound flag follows the sound timer
UpdateSound(c) ==
    IF c.st > 0 /\ ~c.sound_playing THEN [c EXCEPT !.sound_playing = TRUE]
    ELSE IF c.st = 0 /\ c.sound_playing THEN [c EXCEPT !.sound_playing = FALSE]
    ELSE c

\* a choice that takes the timer tick also when the deadlines are equal
TimerDueOrEqual(c) == c.next_timers_tick <= c.next_tick

TimerDue(c) == c.next_timers_tick < c.next_tick

\* the second branch of Chip8::step_debug after self.tick() gave r
AfterTick(r) ==
    IF ~r.ok THEN r
    ELSE Ok(UpdateSound(
           [r.c EXCEPT !.next_tick = @ + Period(InstrHz, r.c.execution_speed)]))

\* Chip8::step_debug
StepDebug(c, rnd, chk) ==
    IF TimerDue(c) THEN Ok(UpdateSound(TimerTick(c)))
    ELSE AfterTick(Tick(c, rnd, chk))

\* step_debug, lines 354-363: the notification printed by the call that took
\* the machine from c to d; it is printed exactly when the flag is assigned
FlagNote(c, d) ==
    IF ~c.sound_playing /\ d.sound_playing THEN <<"start">>
    ELSE IF c.sound_playing /\ ~d.sound_playing THEN <<"stop">>
    ELSE <<>>

\* a result with the notifications printed so far
Quiet(c) == [c |-> c, ok |-> TRUE, notes |-> <<>>]

\* the result q of step_debug on the machine of r, after r
Logged(r, q) == [c |-> q.c, ok |-> q.ok, notes |-> r.notes \o FlagNote(r.c, q.c)]

\* the loop of Chip8::step_with_time, from the result r of the steps so far
RECURSIVE StepWhileDue(_, _, _, _)
StepWhileDue(r, t, rnd, chk) ==
    IF r.ok /\ t > r.c.next_tick /\ t > r.c.next_timers_tick
    THEN StepWhileDue(Logged(r, StepDebug(r.c, rnd, chk)), t, rnd, chk)
    ELSE r

\* Chip8::step_with_time, with t the value of Instant::now()
StepWithTime(c, t, rnd, chk) == StepWhileDue(Quiet(c), t, rnd, chk)

\* a clone_from that leaves the call stack alone
CloneFromKeepStack(self, source) ==
    [source EXCEPT !.stack = self.stack]

\* a clone_from that leaves the key state alone
CloneFromKeepKeys(self, source) ==
    [source EXCEPT !.keys = self.keys]

\* Clone::clone_from: every field of the source is copied
CloneFrom(self, source) ==
    [self EXCEPT !.memory = source.memory,
                 !.display = source.display,
                 !.v = source.v,
                 !.pc = source.pc,
                 !.st = source.st,
                 !.dt = source.dt,
                 !.i = source.i,
                 !.stack = source.stack,
                 !.mode = source.mode,
                 !.keys = source.keys,
                 !.execution_speed = source.execution_speed,
                 !.next_tick = source.next_tick,
                 !.next_timers_tick = source.next_timers_tick,
                 !.sound_playing = source.sound_playing]

\* Clone::clone
Clone(self) == CloneFrom(New(0, 0), self)

(***************************************************************************)
(* Program images.  A word is two bytes, big-endian.                       *)
(***************************************************************************)
W(w) == << w \div 256, w % 256 >>

\* the word with nibbles h, x, y, n
Nib(h, x, y, n) == h * 4096 + x * 256 + y * 16 + n

\* the word hXNN
XNn(h, x, nn) == h * 4096 + x * 256 + nn

\* the word hNNN
Nnn(h, nnn) == h * 4096 + nnn

RegSample == {0, 1, 15}
ByteSample == {0, 1, 127, 128, 255}
RandSample == {0, 165, 255}

\* 6x a; 6y b; 8xyk
AluImage(k, x, y, a, b) ==
    W(XNn(6, x, a)) \o W(XNn(6, y, b)) \o W(Nib(8, x, y, k))

AluImages ==
    { AluImage(k, x, y, a, b) :
        k \in {0, 1, 2, 3, 4, 5, 6, 7, 14}, x \in RegSample, y \in RegSample,
        a \in ByteSample, b \in ByteSample }

\* 6F f; 6x a; 7x nn
AddImmImage(x, f, a, nn) ==
    W(XNn(6, 15, f)) \o W(XNn(6, x, a)) \o W(XNn(7, x, nn))

AddImmImages ==
    { AddImmImage(x, f, a, nn) :
        x \in RegSample, f \in {0, 1, 7}, a \in ByteSample, nn \in ByteSample }

\* 6x a; 6y b; A s1; Dxyn; A s2; Dxyn; then the sprite rows FF 81 FF
SpriteData == << 255, 129, 255 >>
SpriteAt == ProgramStart + 12

DrawImage(x, y, a, b, n, s1, s2) ==
    W(XNn(6, x, a)) \o W(XNn(6, y, b)) \o W(Nnn(10, s1)) \o W(Nib(13, x, y, n))
        \o W(Nnn(10, s2)) \o W(Nib(13, x, y, n)) \o SpriteData

DrawImages ==
    { DrawImage(x, y, a, b, n, s[1], s[2]) :
        x \in RegSample, y \in RegSample,
        a \in {0, 60, 63, 124}, b \in {0, 30, 31, 62}, n \in {0, 1, 5, 15},
        s \in { <<SpriteAt, SpriteAt>>, <<SpriteAt, 0>>, <<0, 0>>,
                <<MemSize - 2, SpriteAt>> } }

\* 6x a; Fx0A; 1202: wait for a key into Vx, again and again
\* 1nnn or 6015; Bnnn: a jump to nnn or to nnn + V0, then whatever is there
JumpImages ==
    { W(Nnn(1, nnn)) : nnn \in {ProgramStart + 1, ProgramStart + 4, MemSize - 2} }
        \cup { W(XNn(6, 0, 21)) \o W(Nnn(11, nnn)) :
                  nnn \in {ProgramStart - 20, MemSize - 1} }

\* 60 a; F015; 61 b; F118; 1208: set the delay timer to a and the sound
\* timer to b, then loop
TimerImage(a, b) ==
    W(XNn(6, 0, a)) \o W(XNn(15, 0, 21)) \o W(XNn(6, 1, b)) \o W(XNn(15, 1, 24))
        \o W(Nnn(1, ProgramStart + 8))

TimerSample == {0, 1, 2, 255}

TimerImages == { TimerImage(a, b) : a \in TimerSample, b \in TimerSample }

\* operand samples for the decoder: addresses, and the low bytes that
\* select a variant together with their neighbours
AddrSample == {0, 1, 512, 4095}

LowSample ==
    (0 .. 16) \cup {21, 24, 30, 41, 51, 85, 101, 158, 161, 224, 238}
        \cup {20, 22, 31, 50, 86, 100, 157, 162, 225, 239, 240, 255}

WordSample ==
    { 4096 * top + 256 * x + lo : top \in 0 .. 15, x \in RegSample, lo \in LowSample }

XYOps ==
    {"SeVxVy", "LdVxVy", "OrVxVy", "AndVxVy", "XorVxVy", "AddVxVy", "SubVxVy",
     "ShrVxVy", "SubnVxVy", "ShlVxVy", "SneVxVy"}

XNnOps == {"SeVxNn", "SneVxNn", "LdVxNn", "AddVxNn", "RndVxNn"}

XOps ==
    {"SkpVx", "SknpVx", "LdVxDt", "LdVxK", "LdDtVx", "LdStVx", "AddIVx", "LdFVx",
     "LdBVx", "LdIVx", "LdVxI"}

NnnOps == {"Jmp", "Call", "LdINn", "JmpV0Nnn"}

OpSample ==
    { Mk(n, <<>>) : n \in {"Cls", "Ret"} }
        \cup { Mk(n, <<a>>) : n \in NnnOps, a \in AddrSample }
        \cup { Mk(n, <<x, b>>) : n \in XNnOps, x \in RegSample, b \in ByteSample }
        \cup { Mk(n, <<x, y>>) : n \in XYOps, x \in RegSample, y \in RegSample }
        \cup { Mk("DrawVxVyN", <<x, y, n>>) : x \in RegSample, y \in RegSample,
                                              n \in RegSample }
        \cup { Mk(n, <<x>>) : n \in XOps, x \in RegSample }

\* one word at ProgramStart
DecodeImages == { W(w) : w \in WordSample \cup { Encode(o) : o \in OpSample } }

\* AFFF 60FF F01E 1204: I = 0xFFF, then for ever add 255 to I
AddIImage ==
    W(Nnn(10, 4095)) \o W(XNn(6, 0, 255)) \o W(XNn(15, 0, 30))
        \o W(Nnn(1, ProgramStart + 4))

AddIImages == {AddIImage}

\* 6x a; A nnn; Fx33: store the digits of a at nnn
BcdImage(x, a, nnn) == W(XNn(6, x, a)) \o W(Nnn(10, nnn)) \o W(XNn(15, x, 51))

BcdSample == {0, 9, 10, 99, 100, 157, 255}

\* addresses: the program itself, free memory, the last three bytes, and
\* one byte too far
BcdAddrSample == {ProgramStart, ProgramStart + 256, MemSize - 3, MemSize - 2}

BcdImages ==
    { BcdImage(x, a, nnn) : x \in {0, 15}, a \in BcdSample, nnn \in BcdAddrSample }

\* 2206 6A01 1204 | 220C 6B02 00EE | 6x a 00EE: call f, which calls g; after
\* the return from f load VA and stop in a loop
NestedCallImage(x, a) ==
    W(Nnn(2, ProgramStart + 6)) \o W(XNn(6, 10, 1)) \o W(Nnn(1, ProgramStart + 4))
        \o W(Nnn(2, ProgramStart + 12)) \o W(XNn(6, 11, 2)) \o W(238)
        \o W(XNn(6, x, a)) \o W(238)

\* 2208 2208 6A01 1206 | 7x a 00EE: call f twice, load VA and stop in a loop
TwoCallsImage(x, a) ==
    W(Nnn(2, ProgramStart + 8)) \o W(Nnn(2, ProgramStart + 8)) \o W(XNn(6, 10, 1))
        \o W(Nnn(1, ProgramStart + 6))
        \o W(XNn(7, x, a)) \o W(238)

CallImages ==
    { NestedCallImage(x, a) : x \in {0, 1, 12}, a \in ByteSample }
        \cup { TwoCallsImage(x, a) : x \in {0, 1, 12}, a \in ByteSample }

\* 6x a; Fx29: the font address of the value a
FontImage(x, a) == W(XNn(6, x, a)) \o W(XNn(15, x, 41))

FontSample == {0, 1, 15, 16, 51, 52, 128, 255}

FontImages == { FontImage(x, a) : x \in RegSample, a \in FontSample }

\* 6x a; Ex9E or ExA1: a key lookup with the index a
KeyLookupImage(x, a, low) == W(XNn(6, x, a)) \o W(XNn(14, x, low))

\* A nnn; a word that reads or writes memory from I on
EdgeImage(nnn, w) == W(Nnn(10, nnn)) \o W(w)

\* the last addresses of memory
EdgeSample == {MemSize - 3, MemSize - 2, MemSize - 1}

\* F055 F155 F065 F165 F033 D001 D002
EdgeWords ==
    {XNn(15, 0, 85), XNn(15, 1, 85), XNn(15, 0, 101), XNn(15, 1, 101),
     XNn(15, 0, 51), Nib(13, 0, 0, 1), Nib(13, 0, 0, 2)}

AccessImages ==
    { KeyLookupImage(x, a, low) : x \in RegSample, a \in {0, 15, 16, 255},
                                  low \in {158, 161} }
        \cup { EdgeImage(nnn, w) : nnn \in EdgeSample, w \in EdgeWords }
        \cup { W(Nnn(1, nnn)) : nnn \in EdgeSample }

\* 6A03 FA15 FA18 w 1208: the word w executed with both timers running,
\* then a loop
RunningTimersImage(w) ==
    W(XNn(6, 10, 3)) \o W(XNn(15, 10, 21)) \o W(XNn(15, 10, 24)) \o W(w)
        \o W(Nnn(1, ProgramStart + 8))

RunningTimersImages == { RunningTimersImage(Encode(o)) : o \in OpSample }

KeyWaitImage(x, a) == W(XNn(6, x, a)) \o W(XNn(15, x, 10)) \o W(Nnn(1, ProgramStart + 2))

KeyWaitImages == { KeyWaitImage(x, a) : x \in RegSample, a \in {0, 9} }

KeySample == {0, 3, 15}

(***************************************************************************)
(* State.                                                                  *)
(*   chip             stage.chip                                           *)
(*   is_enabled, is_playing, keyboard, consumable_keys, states             *)
(*                    the fields of stage.debugger; the two HashMaps are   *)
(*                    read with unwrap_or(&false), so a missing key and a  *)
(*                    key mapped to false are the same, and each map is a  *)
(*                    total function to BOOLEAN                            *)
(*   now              the wall clock (Instant::now())                      *)
(*   status           "running", "panicked" (a panic unwound the process)  *)
(*                    or "exited" (process::exit)                          *)
(*   last             history variable: the last operation on the machine  *)
(*                    (a step, a frame, a keypad event) and the machine    *)
(*                    before it; for single steps also the number of       *)
(*                    instructions since the last timer tick (since) and   *)
(*                    the numbers of instructions before each timer tick   *)
(*                    so far (gaps)                                        *)
(*   wait             history variable: the run of key-wait executions in  *)
(*                    progress (see KeyWaitRun)                            *)
(*   run              history variable: the run of step and undo commands  *)
(*                    in progress (see StepUndoRun)                        *)
(***************************************************************************)
VARIABLES chip, is_enabled, is_playing, keyboard, consumable_keys, states,
          now, status, last, wait, run

vars == << chip, is_enabled, is_playing, keyboard, consumable_keys, states,
           now, status, last, wait, run >>

dbg == << is_enabled, is_playing, keyboard, consumable_keys, states >>

KeyCodes == {"P", "H", "J", "K", "Equal", "Minus", "Key0", "Semicolon"}
KEY_TOGGLE_PLAY == "P"
KEY_PLAY_BACKWARD == "H"
KEY_STEP_DEBUG == "J"
KEY_UNDO_STEP_DEBUG == "K"
KEY_GO_FASTER == "Equal"
KEY_GO_SLOWER == "Minus"
KEY_GO_NORMAL == "Key0"
KEY_TERMINATE == "Semicolon"

\* the choices of rand::random::<u8>() and of the build's overflow checks
\* that the next step_debug of c can depend on
NextOp(c) ==
    IF TimerDue(c) \/ c.pc + 2 > MemSize THEN "none" ELSE Decode(Fetch(c)).op

RndChoices(c) == IF NextOp(c) = "RndVxNn" THEN RandSample ELSE {0}

ChkChoices(c) == IF NextOp(c) \in {"LdFVx", "AddIVx"} THEN BOOLEAN ELSE {TRUE}

\* the same for a frame, which executes the words its instructions lead it
\* to: a word decodes to RndVxNn only if its first byte is Cx, to LdFVx or
\* AddIVx only if it is Fx29 or Fx1E
FrameRndChoices(c) ==
    IF \E a \in DOMAIN c.memory : c.memory[a] \div 16 = 12 THEN RandSample ELSE {0}

FrameChkChoices(c) ==
    IF \E a \in DOMAIN c.memory :
          c.memory[a] \div 16 = 15 /\ Get(c.memory, a + 1) \in {41, 30}
    THEN BOOLEAN ELSE {TRUE}

\* the opcode the last step executed, when it was an instruction
LastOp == Decode(Fetch(last.pre))

Ticked(name) ==
    /\ last.act = "tick"
    /\ last.pre.pc + 2 <= MemSize
    /\ LastOp.op = name

(***************************************************************************)
(* History of the key wait: n counts the executions of LdVxK that found no *)
(* key since the machine last did anything else than wait (timer ticks and *)
(* key events apart), pc and v are the program counter and the registers   *)
(* before the first of them.  done is set by the execution that ends the   *)
(* run by finding a key.                                                   *)
(***************************************************************************)
NoWait == [n |-> 0, pc |-> 0, v |-> <<>>, done |-> FALSE]

KeyWaitRun(c, ok) ==
    IF TimerDue(c) THEN [wait EXCEPT !.done = FALSE]
    ELSE IF NextOp(c) = "LdVxK" /\ ok
         THEN IF PressedKeys(c) = {}
              THEN IF wait.n = 0 \/ wait.done
                   THEN [n |-> 1, pc |-> c.pc, v |-> c.v, done |-> FALSE]
                   ELSE [wait EXCEPT !.n = @ + 1]
              ELSE IF wait.n = 0 \/ wait.done
                   THEN [n |-> 0, pc |-> c.pc, v |-> c.v, done |-> TRUE]
                   ELSE [wait EXCEPT !.done = TRUE]
         ELSE NoWait

(***************************************************************************)
(* History of step and undo commands: phase is "steps" while only step     *)
(* commands were given since the run began, "undos" once undo commands     *)
(* follow them, "none" when any other command broke the run.  n counts the *)
(* steps of the run, depth the steps not yet undone, chip and states are   *)
(* the machine and the history before the first step.                      *)
(***************************************************************************)
NoRun == [phase |-> "none", n |-> 0, depth |-> 0, chip |-> <<>>, states |-> <<>>]

RunStep(r, c, sts) ==
    IF r.phase = "steps" THEN [r EXCEPT !.n = @ + 1, !.depth = @ + 1]
    ELSE [phase |-> "steps", n |-> 1, depth |-> 1, chip |-> c, states |-> sts]

RunUndo(r) ==
    IF r.phase \in {"steps", "undos"} /\ r.depth > 0
    THEN [r EXCEPT !.phase = "undos", !.depth = @ - 1]
    ELSE NoRun

\* the run after a frame that gave the commands cmds, in the order update
\* acts on them; c and sts are the machine and the history the frame's step
\* command finds
StepUndoRun(r, cmds, c, sts) ==
    LET r0 == IF cmds \ {"step", "rewind", "undo"} # {} THEN NoRun ELSE r
        r1 == IF "step" \in cmds THEN RunStep(r0, c, sts) ELSE r0
        r2 == IF "rewind" \in cmds THEN NoRun ELSE r1
    IN  IF "undo" \in cmds THEN RunUndo(r2) ELSE r2

\* the last notification printed so far, "none" before the first
Heard(l) == IF l.notes = <<>> THEN l.heard ELSE l.notes[Len(l.notes)]

\* the state after Chip8::new, Chip8::load(image) and Debugger::new
InitWith(images) ==
    /\ \E image \in images, t1 \in 0..MaxSkew :
          /\ chip = Load(New(0, t1), image)
          /\ now = t1
    /\ is_enabled = TRUE
    /\ is_playing = FALSE
    /\ keyboard = [k \in KeyCodes |-> FALSE]
    /\ consumable_keys = [k \in KeyCodes |-> FALSE]
    /\ states = <<>>
    /\ status = "running"
    /\ last = [act |-> "init", pre |-> chip, heard |-> "none", notes |-> <<>>,
               since |-> 0, gaps |-> <<>>]
    /\ wait = NoWait
    /\ run = NoRun

(***************************************************************************)
(* TickSpec: the interpreter alone, single-stepped by step_debug from the  *)
(* loaded image.  KeySpec: the same with the keypad operated.              *)
(***************************************************************************)
\* one call of step_debug, while the instruction deadline is at most ms
StepUntil(ms) ==
    /\ status = "running"
    /\ chip.next_tick <= ms * NsPerMs
    /\ \E r \in {StepDebug(chip, rnd, chk) : rnd \in RndChoices(chip),
                                            chk \in ChkChoices(chip)} :
          /\ chip' = r.c
          /\ status' = IF r.ok THEN "running" ELSE "panicked"
          /\ wait' = KeyWaitRun(chip, r.ok)
          /\ last' = [act |-> IF TimerDue(chip) THEN "timer" ELSE "tick", pre |-> chip,
                      heard |-> Heard(last), notes |-> FlagNote(chip, r.c),
                      since |-> IF TimerDue(chip) THEN 0 ELSE last.since + 1,
                      gaps |-> IF TimerDue(chip) THEN Append(last.gaps, last.since)
                               ELSE last.gaps]
    /\ UNCHANGED << dbg, now, run >>

TStep == StepUntil(MaxStepMs)

\* The host's key handlers (not in src/): the presentation layer calls the
\* key-down and key-up setters of the machine's key-state vector.
ChipKeyDownOf(keys) ==
    /\ status = "running"
    /\ \E k \in keys :
          /\ ~chip.keys[k]
          /\ chip' = [chip EXCEPT !.keys[k] = TRUE]
    /\ last' = [act |-> "keydown", pre |-> chip, heard |-> Heard(last), notes |-> <<>>,
                since |-> last.since, gaps |-> last.gaps]
    /\ UNCHANGED << dbg, now, status, wait, run >>

ChipKeyDown == ChipKeyDownOf(KeySample)

ChipKeyUp ==
    /\ status = "running"
    /\ \E k \in KeySample :
          /\ chip.keys[k]
          /\ chip' = [chip EXCEPT !.keys[k] = FALSE]
    /\ last' = [act |-> "keyup", pre |-> chip, heard |-> Heard(last), notes |-> <<>>,
                since |-> last.since, gaps |-> last.gaps]
    /\ UNCHANGED << dbg, now, status, wait, run >>

TickImages == AluImages \cup AddImmImages \cup DrawImages \cup JumpImages

TickInit == InitWith(TickImages)

TickNext == TStep

TickSpec == TickInit /\ [][TickNext]_vars

KeyInit == InitWith(KeyWaitImages)

KeyNext == TStep \/ ChipKeyDown \/ ChipKeyUp

KeySpec == KeyInit /\ [][KeyNext]_vars

(***************************************************************************)
(* TimerSpec: the interpreter single-stepped through three timer periods.  *)
(***************************************************************************)
TimerInit == InitWith(TimerImages)

TimerStep == StepUntil(MaxTimerMs)

TimerNext == TimerStep

TimerSpec == TimerInit /\ [][TimerNext]_vars

(***************************************************************************)
(* DecodeSpec: one sampled word at ProgramStart, fetched, decoded and      *)
(* executed.                                                               *)
(***************************************************************************)
DecodeInit == InitWith(DecodeImages)

DecodeStep == StepUntil(MaxStepMs)

DecodeNext == DecodeStep

DecodeSpec == DecodeInit /\ [][DecodeNext]_vars

(***************************************************************************)
(* AddISpec: the interpreter single-stepped through a loop that adds to I. *)
(***************************************************************************)
AddIInit == InitWith(AddIImages)

AddIStep == StepUntil(MaxAddIMs)

AddINext == AddIStep

AddISpec == AddIInit /\ [][AddINext]_vars

(***************************************************************************)
(* BcdSpec: the interpreter single-stepped through a digit store.          *)
(***************************************************************************)
BcdInit == InitWith(BcdImages)

BcdStep == StepUntil(MaxStepMs)

BcdNext == BcdStep

BcdSpec == BcdInit /\ [][BcdNext]_vars

(***************************************************************************)
(* CallSpec: the interpreter single-stepped through calls and returns.     *)
(***************************************************************************)
CallInit == InitWith(CallImages)

CallStep == StepUntil(MaxCallMs)

CallNext == CallStep

CallSpec == CallInit /\ [][CallNext]_vars

(***************************************************************************)
(* FontSpec: the interpreter single-stepped through a font-address load.   *)
(***************************************************************************)
FontInit == InitWith(FontImages)

FontStep == StepUntil(MaxStepMs)

FontNext == FontStep

FontSpec == FontInit /\ [][FontNext]_vars

(***************************************************************************)
(* AccessSpec: the interpreter single-stepped through key lookups and      *)
(* through memory accesses at the end of memory.                           *)
(***************************************************************************)
AccessInit == InitWith(AccessImages)

AccessStep == StepUntil(MaxStepMs)

AccessNext == AccessStep

AccessSpec == AccessInit /\ [][AccessNext]_vars

(***************************************************************************)
(* RunningTimersSpec: the interpreter single-stepped through one           *)
(* instruction of every kind while both timers run.                        *)
(***************************************************************************)
RunningTimersInit == InitWith(RunningTimersImages)

RunningTimersStep == StepUntil(MaxRunMs)

RunningTimersNext == RunningTimersStep

RunningTimersSpec == RunningTimersInit /\ [][RunningTimersNext]_vars

(***************************************************************************)
(* Claims about single instructions (TickSpec, KeySpec).                   *)
(***************************************************************************)
\* C3: executing the key wait (FX0A) with no key pressed leaves PC where it
\* was before the instruction, so that the same instruction is fetched again,
\* and changes no register, however often it is repeated; the first
\* execution that finds a key pressed leaves PC advanced by 2 and Vx equal to
\* the lowest pressed key index.
C3_KeyWait ==
    /\ (Ticked("LdVxK") /\ PressedKeys(last.pre) = {}) =>
          /\ status = "running"
          /\ chip.pc = last.pre.pc
          /\ chip.v = last.pre.v
          /\ Decode(Fetch(chip)) = LastOp
    /\ (wait.n > 0 /\ ~wait.done) =>
          /\ chip.pc = wait.pc
          /\ chip.v = wait.v
    /\ (Ticked("LdVxK") /\ wait.done) =>
          LET x == LastOp.args[1]
          IN  /\ status = "running"
              /\ PressedKeys(last.pre) # {}
              /\ chip.pc = wait.pc + 2
              /\ chip.v[x] \in PressedKeys(last.pre)
              /\ \A k \in PressedKeys(last.pre) : chip.v[x] <= k
              /\ \A r \in Reg \ {x} : chip.v[r] = wait.v[r]

\* the wait was executed three times without a key, then ended with keys 3
\* and 15 down
C3_Witness ==
    /\ Ticked("LdVxK")
    /\ wait.done
    /\ wait.n >= 3
    /\ PressedKeys(last.pre) = {3, 15}
    /\ chip.v[LastOp.args[1]] = 3

\* C4 (as claimed): after Sub Vx,Vy (8XY5) VF is 0 exactly when Vx < Vy held
\* before the operation and 1 otherwise; for x # F, Vx = (Vx - Vy) mod 256.
C4_SubFlagClearOnBorrow ==
    Ticked("SubVxVy") =>
        LET x == LastOp.args[1]
            y == LastOp.args[2]
            borrow == last.pre.v[x] < last.pre.v[y]
        IN  /\ chip.v[15] = (IF borrow THEN 0 ELSE 1)
            /\ x # 15 => chip.v[x] = (last.pre.v[x] - last.pre.v[y] + 256) % 256

\* What the code does instead: VF is 1 exactly when the borrow occurred.
C4_SubFlagSetOnBorrow ==
    Ticked("SubVxVy") =>
        LET x == LastOp.args[1]
            y == LastOp.args[2]
            borrow == last.pre.v[x] < last.pre.v[y]
        IN  /\ chip.v[15] = (IF borrow THEN 1 ELSE 0)
            /\ x # 15 => chip.v[x] = (last.pre.v[x] - last.pre.v[y] + 256) % 256

\* C5: after Add Vx,Vy (8XY4), for all operands including x = F or y = F, VF
\* is 1 if the sum of the old Vx and Vy exceeds 255 and 0 otherwise; for
\* x # F, Vx is the sum mod 256.
C5_AddCarryFlag ==
    Ticked("AddVxVy") =>
        LET x == LastOp.args[1]
            y == LastOp.args[2]
            sum == last.pre.v[x] + last.pre.v[y]
        IN  /\ status = "running"
            /\ chip.v[15] = (IF sum > 255 THEN 1 ELSE 0)
            /\ x # 15 => chip.v[x] = sum % 256

\* an Add VF,Vy that overflowed to the result 0 and left VF = 1
C5_Witness ==
    /\ Ticked("AddVxVy")
    /\ LastOp.args[1] = 15
    /\ LastOp.args[2] # 15
    /\ last.pre.v[15] + last.pre.v[LastOp.args[2]] = 256
    /\ chip.v[15] = 1

\* C6: Add Vx,NN (7XNN) sets Vx to (Vx + NN) mod 256 without a fatal error and
\* leaves every other register (VF too, when x # F) unchanged.
C6_AddImmWraps ==
    Ticked("AddVxNn") =>
        LET x == LastOp.args[1]
            nn == LastOp.args[2]
        IN  /\ status = "running"
            /\ chip.v = [last.pre.v EXCEPT ![x] = (last.pre.v[x] + nn) % 256]

\* an Add Vx,NN that wrapped while VF held 7, and kept it
C6_Witness ==
    /\ Ticked("AddVxNn")
    /\ LastOp.args[1] # 15
    /\ last.pre.v[LastOp.args[1]] + LastOp.args[2] > 255
    /\ last.pre.v[15] = 7
    /\ chip.v[15] = 7

\* bit dx (from the left) of row dy of the sprite at I
SpriteBit(c, dy, dx) == Shr(Get(c.memory, c.i + dy), 7 - dx) % 2

\* the cells of the n-row sprite at I, placed with its corner at (x0, y0),
\* that lie on the display and whose sprite bit is 1
SpriteCells(c, x0, y0, n) ==
    { loc \in Cell :
        LET dx == (loc % DisplayWidth) - x0
            dy == (loc \div DisplayWidth) - y0
        IN  /\ dx \in 0..7
            /\ dy \in 0..(n - 1)
            /\ SpriteBit(c, dy, dx) = 1 }

\* the display is the old one with exactly the cells of the sprite toggled
DrawnAt(x0, y0, n) ==
    LET on == SpriteCells(last.pre, x0, y0, n)
    IN  \A loc \in Cell :
            Get(chip.display, loc) =
                IF loc \in on THEN BitXor(Get(last.pre.display, loc), 255)
                ELSE Get(last.pre.display, loc)

\* C7 (as claimed): for all operands x, y in 0..F, Draw Vx,Vy,N places sprite
\* bit dx of row dy at cell ((Vx mod 64) + dx, (Vy mod 32) + dy), Vx and Vy
\* being the values held before the instruction, only when that cell is on
\* the display; nothing wraps around and every other cell is unchanged.
C7_DrawPlacement ==
    (Ticked("DrawVxVyN") /\ status = "running") =>
        DrawnAt(last.pre.v[LastOp.args[1]] % DisplayWidth,
                last.pre.v[LastOp.args[2]] % DisplayHeight,
                LastOp.args[3])

\* What the code does: the same for operands other than VF, which it clears
\* before it reads the coordinates.
C7_DrawPlacementAfterClear ==
    (Ticked("DrawVxVyN") /\ status = "running") =>
        LET v1 == [last.pre.v EXCEPT ![15] = 0]
        IN  DrawnAt(v1[LastOp.args[1]] % DisplayWidth,
                    v1[LastOp.args[2]] % DisplayHeight,
                    LastOp.args[3])

\* C8: after Draw Vx,Vy,N, VF is 1 if and only if some cell that was on (0xFF)
\* before the instruction is off (0) after it, and 0 otherwise; the cells
\* toggled are exactly those on the display whose sprite bit is 1 (the sprite
\* placed where the instruction placed it, see C7).
C8_DrawCollisionFlag ==
    (Ticked("DrawVxVyN") /\ status = "running") =>
        LET v1 == [last.pre.v EXCEPT ![15] = 0]
            erased == { loc \in Cell : /\ Get(last.pre.display, loc) = 255
                                       /\ Get(chip.display, loc) = 0 }
            toggled == { loc \in Cell :
                            Get(chip.display, loc) # Get(last.pre.display, loc) }
        IN  /\ chip.v[15] = (IF erased # {} THEN 1 ELSE 0)
            /\ toggled = SpriteCells(last.pre, v1[LastOp.args[1]] % DisplayWidth,
                                     v1[LastOp.args[2]] % DisplayHeight,
                                     LastOp.args[3])

\* a draw that turned some cells off and others on, and one that only turned
\* cells on and left VF 0, are both reached; this is the first
C8_Witness ==
    /\ Ticked("DrawVxVyN")
    /\ status = "running"
    /\ chip.v[15] = 1
    /\ \E loc \in DOMAIN chip.display : Get(last.pre.display, loc) = 0
    /\ \E loc \in DOMAIN last.pre.display : Get(chip.display, loc) = 0
    /\ \E loc \in DOMAIN last.pre.display : Get(chip.display, loc) = 255

(***************************************************************************)
(* The debugger: Debugger's methods and update (src/src/debugger.rs).      *)
(***************************************************************************)
\* Debugger::consume_key(k) returns ck[k] and leaves the map Consume(ck, k)
\* a read of the map that leaves the key pending
ConsumeNothing(ck, k) == ck

Consume(ck, k) == [ck EXCEPT ![k] = FALSE]

\* the sets of debugger keys that are held down together
Chords ==
    { {k} : k \in KeyCodes }
        \cup { {KEY_TOGGLE_PLAY, KEY_STEP_DEBUG},
               {KEY_STEP_DEBUG, KEY_UNDO_STEP_DEBUG},
               {KEY_STEP_DEBUG, KEY_PLAY_BACKWARD},
               {KEY_PLAY_BACKWARD, KEY_UNDO_STEP_DEBUG} }

\* Debugger::key_down_event, for a key that is up; chords are the sets of
\* keys held together
DebugKeyDownIn(chords) ==
    /\ status = "running"
    /\ \E k \in KeyCodes :
          /\ ~keyboard[k]
          /\ {h \in KeyCodes : keyboard[h]} \cup {k} \in chords
          /\ k = KEY_GO_FASTER => chip.execution_speed < MaxSpeed
          /\ keyboard' = [keyboard EXCEPT ![k] = TRUE]
          /\ consumable_keys' = [consumable_keys EXCEPT ![k] = TRUE]
    /\ UNCHANGED << chip, is_enabled, is_playing, states, now, status, last, wait, run >>

DebugKeyDown == DebugKeyDownIn(Chords)

\* Debugger::key_up_event
DebugKeyUp ==
    /\ status = "running"
    /\ \E k \in KeyCodes :
          /\ keyboard[k]
          /\ keyboard' = [keyboard EXCEPT ![k] = FALSE]
          /\ consumable_keys' = [consumable_keys EXCEPT ![k] = FALSE]
    /\ UNCHANGED << chip, is_enabled, is_playing, states, now, status, last, wait, run >>

\* speed keys of which the slower one takes the speed to zero
SpeedCommandsSlowerToZero(c, ck) ==
    LET c1 == IF ck[KEY_GO_FASTER]
              THEN [c EXCEPT !.execution_speed = @ + SpeedStep] ELSE c
        c2 == IF ck[KEY_GO_SLOWER]
              THEN [c1 EXCEPT !.execution_speed = SlowSpeed - SpeedStep] ELSE c1
    IN  IF ck[KEY_GO_NORMAL] THEN [c2 EXCEPT !.execution_speed = NormalSpeed] ELSE c2

\* update, lines 60-71: the three speed keys, in the order they are consumed
SpeedCommands(c, ck) ==
    LET c1 == IF ck[KEY_GO_FASTER]
              THEN [c EXCEPT !.execution_speed = @ + SpeedStep] ELSE c
        c2 == IF ck[KEY_GO_SLOWER]
              THEN [c1 EXCEPT !.execution_speed = SlowSpeed] ELSE c1
    IN  IF ck[KEY_GO_NORMAL] THEN [c2 EXCEPT !.execution_speed = NormalSpeed] ELSE c2

\* a toggle that leaves the deadlines as they are
ResetDeadlinesNever(c, playing, t1, t2) == c

\* update, lines 72-81: the machine after the toggle key made is_playing
\* `playing'; t1 <= t2 are the two reads of Instant::now()
ResetDeadlines(c, playing, t1, t2) ==
    IF playing THEN [c EXCEPT !.next_tick = t1, !.next_timers_tick = t2] ELSE c

\* states.push(chip.clone())
PushSnapshot(sts, c) == Append(sts, Clone(c))

(***************************************************************************)
(* The paused branch of update works on s = [chip, states, ck, ok]: the    *)
(* machine, the history, the map consumable_keys, and whether no panic has *)
(* unwound the frame.                                                      *)
(***************************************************************************)
Consumed(s, k) == [s EXCEPT !.ck = Consume(@, k)]

\* a push of the machine as it is after the step
SteppedPushAfter(s, r) ==
    [s EXCEPT !.chip = r.c, !.states = PushSnapshot(s.states, r.c), !.ok = r.ok,
              !.notes = r.notes]

\* s after states.push(chip.clone()) and a step of the machine that gave r
Stepped(s, r) ==
    [s EXCEPT !.chip = r.c, !.states = PushSnapshot(s.states, s.chip), !.ok = r.ok,
              !.notes = r.notes]

\* update, lines 83-84: a frame while playing
PlayFrame(s, t, rnd, chk) == Stepped(s, StepWithTime(s.chip, t, rnd, chk))

\* update, lines 87-97: the step command
StepCommand(s, rnd, chk) ==
    Stepped(s, Logged(Quiet(s.chip), StepDebug(s.chip, rnd, chk)))

\* an undo that unwraps the popped snapshot
UndoUnwrap(s) ==
    IF s.states = <<>> THEN [s EXCEPT !.ok = FALSE]
    ELSE [s EXCEPT !.chip = CloneFrom(@, s.states[Len(s.states)]),
                   !.states = SubSeq(@, 1, Len(@) - 1)]

\* if let Some(prev) = states.pop() { chip.clone_from(&prev) }
Undo(s) ==
    IF s.states = <<>> THEN s
    ELSE [s EXCEPT !.chip = CloneFrom(@, s.states[Len(s.states)]),
                   !.states = SubSeq(@, 1, Len(@) - 1)]

\* update, lines 86-98
OnStepKey(s, rnd, chk) ==
    IF s.ck[KEY_STEP_DEBUG]
    THEN StepCommand(Consumed(s, KEY_STEP_DEBUG), rnd, chk)
    ELSE s

\* update, lines 99-103; kb is the map keyboard
OnRewindKey(s, kb) ==
    IF s.ok /\ kb[KEY_PLAY_BACKWARD] THEN Undo(s) ELSE s

\* update, lines 104-109
OnUndoKey(s) ==
    IF s.ok /\ s.ck[KEY_UNDO_STEP_DEBUG]
    THEN Undo(Consumed(s, KEY_UNDO_STEP_DEBUG))
    ELSE s

\* update, lines 86-110: a frame while paused
PausedFrame(s, kb, rnd, chk) ==
    OnUndoKey(OnRewindKey(OnStepKey(s, rnd, chk), kb))

\* the commands a frame gives, from the maps as the frame finds them
FrameCommands(ck, kb, playing) ==
    {cmd \in {"terminate", "faster", "slower", "normal", "toggle", "play",
              "step", "rewind", "undo"} :
        \/ cmd = "terminate" /\ ck[KEY_TERMINATE]
        \/ /\ ~ck[KEY_TERMINATE]
           /\ \/ cmd = "faster" /\ ck[KEY_GO_FASTER]
              \/ cmd = "slower" /\ ck[KEY_GO_SLOWER]
              \/ cmd = "normal" /\ ck[KEY_GO_NORMAL]
              \/ cmd = "toggle" /\ ck[KEY_TOGGLE_PLAY]
              \/ cmd = "play" /\ (playing # ck[KEY_TOGGLE_PLAY])
              \/ /\ playing = ck[KEY_TOGGLE_PLAY]
                 /\ \/ cmd = "step" /\ ck[KEY_STEP_DEBUG]
                    \/ cmd = "rewind" /\ kb[KEY_PLAY_BACKWARD]
                    \/ cmd = "undo" /\ ck[KEY_UNDO_STEP_DEBUG]}

\* the stage after a frame that ended as s at time t
Stage(s, playing, t) ==
    [chip |-> s.chip, is_playing |-> playing, states |-> s.states, ck |-> s.ck,
     now |-> t, status |-> IF s.ok THEN "running" ELSE "panicked", notes |-> s.notes]

\* update with the debugger enabled, lines 57-111: the frame at time t0 whose
\* reads of the clock return t0 + o[1] <= t0 + o[2] <= t0 + o[3].  The result
\* is the stage after the frame, the time of its last read of the clock, and
\* how the process goes on.
DebugFrame(c, playing, ck, kb, sts, t0, o, rnd, chk) ==
    IF ck[KEY_TERMINATE]
    THEN [chip |-> c, is_playing |-> playing, states |-> sts,
          ck |-> Consume(ck, KEY_TERMINATE), now |-> t0, status |-> "exited",
          notes |-> <<>>]
    ELSE LET playing1 == IF ck[KEY_TOGGLE_PLAY] THEN ~playing ELSE playing
             c2 == IF ck[KEY_TOGGLE_PLAY]
                   THEN ResetDeadlines(SpeedCommands(c, ck), playing1,
                                       t0 + o[1], t0 + o[2])
                   ELSE SpeedCommands(c, ck)
             ck1 == [k \in KeyCodes |->
                        IF k \in {KEY_TERMINATE, KEY_GO_FASTER, KEY_GO_SLOWER,
                                  KEY_GO_NORMAL, KEY_TOGGLE_PLAY}
                        THEN FALSE ELSE ck[k]]
             s == [chip |-> c2, states |-> sts, ck |-> ck1, ok |-> TRUE, notes |-> <<>>]
         IN  IF playing1
             THEN Stage(PlayFrame(s, t0 + o[3], rnd, chk), playing1, t0 + o[3])
             ELSE Stage(PausedFrame(s, kb, rnd, chk), playing1, t0)

\* update, lines 52-56: with the debugger disabled the frame is step_with_time
PlainStage(r, playing, ck, sts, t) ==
    [chip |-> r.c, is_playing |-> playing, states |-> sts, ck |-> ck,
     now |-> t, status |-> IF r.ok THEN "running" ELSE "panicked", notes |-> r.notes]

PlainFrame(c, playing, ck, sts, t0, o, rnd, chk) ==
    PlainStage(StepWithTime(c, t0 + o[3], rnd, chk), playing, ck, sts, t0 + o[3])

FrameNs == FrameMs * NsPerMs

\* the offsets, from the frame's time, of the reads of the clock a frame
\* makes: two when the toggle key starts playing (lines 76-77), one in
\* step_with_time when the frame plays or the debugger is disabled, none in
\* a paused frame
ClockOffsets(enabled, playing, toggle) ==
    { o \in (0..MaxSkew) \X (0..MaxSkew) \X (0..MaxSkew) :
        /\ o[1] <= o[2] /\ o[2] <= o[3]
        /\ ~(enabled /\ toggle /\ ~playing) => o[1] = 0 /\ o[2] = 0
        /\ enabled /\ playing = toggle => o[3] = 0 }

\* update: one frame of the host's loop, FrameNs after the last one, while
\* the clock is at most ms
UpdateUntil(ms) ==
    /\ status = "running"
    /\ now + FrameNs <= ms * NsPerMs
    /\ \E r \in { IF is_enabled
                  THEN DebugFrame(chip, is_playing, consumable_keys, keyboard, states,
                                  now + FrameNs, o, rnd, chk)
                  ELSE PlainFrame(chip, is_playing, consumable_keys, states,
                                  now + FrameNs, o, rnd, chk) :
                  o \in ClockOffsets(is_enabled, is_playing,
                                    consumable_keys[KEY_TOGGLE_PLAY]),
                  rnd \in FrameRndChoices(chip),
                  chk \in FrameChkChoices(chip) } :
          /\ chip' = r.chip
          /\ is_playing' = r.is_playing
          /\ consumable_keys' = r.ck
          /\ states' = r.states
          /\ now' = r.now
          /\ status' = r.status
          /\ last' = [act |-> "update", pre |-> chip, len |-> Len(states),
                      cmds |-> FrameCommands(consumable_keys, keyboard, is_playing),
                      heard |-> Heard(last), notes |-> r.notes,
                      since |-> last.since, gaps |-> last.gaps]
    /\ run' = StepUndoRun(run, FrameCommands(consumable_keys, keyboard, is_playing),
                          SpeedCommands(chip, consumable_keys), states)
    /\ UNCHANGED << is_enabled, keyboard, wait >>

Update == UpdateUntil(MaxNowMs)

\* 6A03 FA18 FA15 A220 2210 7001 00E0 1208 | D015 DA05 F033 00EE: set both
\* timers, then for ever call the subroutine (draw at (V0, V1) and over it at
\* (VA, V0), store the digits of V0 over the sprite), add 1 to V0 and clear
\* the display
MainImage ==
    W(XNn(6, 10, 3)) \o W(XNn(15, 10, 24)) \o W(XNn(15, 10, 21))
        \o W(Nnn(10, ProgramStart + 32)) \o W(Nnn(2, ProgramStart + 16))
        \o W(XNn(7, 0, 1)) \o W(224) \o W(Nnn(1, ProgramStart + 8))
        \o W(Nib(13, 0, 1, 5)) \o W(Nib(13, 10, 0, 5)) \o W(XNn(15, 0, 51))
        \o W(238)
        \o << 0, 0, 0, 0, 0, 0, 0, 0 >> \o << 255, 129, 255, 129, 255 >>

\* 6A03 FA15 0001 6A04: an unknown word as the third instruction
UnknImage == W(XNn(6, 10, 3)) \o W(XNn(15, 10, 21)) \o W(1) \o W(XNn(6, 10, 4))

\* 6A03 FA15 00EE 6A04: a return, with nothing on the stack
RetImage == W(XNn(6, 10, 3)) \o W(XNn(15, 10, 21)) \o W(238) \o W(XNn(6, 10, 4))

\* 2206 FA15 00EE | 6A03 00EE: a call and its return, then a second return
CallRetImage ==
    W(Nnn(2, ProgramStart + 6)) \o W(XNn(15, 10, 21)) \o W(238)
        \o W(XNn(6, 10, 3)) \o W(238)

FatalImages == {UnknImage, RetImage, CallRetImage}

DebugImages == {MainImage}

Init == InitWith(DebugImages)

Next == Update \/ DebugKeyDown \/ DebugKeyUp

Spec == Init /\ [][Next]_vars

(***************************************************************************)
(* FatalSpec: the debugger over programs that run into an unknown word or  *)
(* a return with an empty stack.                                           *)
(***************************************************************************)
FatalInit == InitWith(FatalImages)

FatalNext == Update \/ DebugKeyDown \/ DebugKeyUp

FatalSpec == FatalInit /\ [][FatalNext]_vars

(***************************************************************************)
(* RestoreSpec: the debugger with the keypad operated between the frames,  *)
(* and with the keys of the commands toggle, step, undo, rewind and        *)
(* faster.                                                                 *)
(***************************************************************************)
RestoreChords ==
    { c \in Chords : c \subseteq {KEY_TOGGLE_PLAY, KEY_STEP_DEBUG, KEY_UNDO_STEP_DEBUG,
                                  KEY_PLAY_BACKWARD, KEY_GO_FASTER} }

RestoreKeypad == {3}

RestoreInit == InitWith(DebugImages)

RestoreKeyDown == DebugKeyDownIn(RestoreChords)

RestoreKeypadDown == ChipKeyDownOf(RestoreKeypad)

RestoreUpdate == UpdateUntil(MaxRestoreMs)

RestoreNext ==
    RestoreUpdate \/ RestoreKeyDown \/ DebugKeyUp \/ RestoreKeypadDown \/ ChipKeyUp

RestoreSpec == RestoreInit /\ [][RestoreNext]_vars

(***************************************************************************)
(* C1: from any machine and undo history, N >= 1 step commands followed by *)
(* N undo commands, no other command in between, leave the machine and the *)
(* history exactly as they were before the first step.                     *)
(***************************************************************************)
C1_StepsThenUndosRestore ==
    run.phase = "undos" /\ run.depth = 0 =>
        /\ chip = run.chip
        /\ states = run.states
        /\ status = "running"

\* two steps and two undos done, from a machine that had run and a history
\* that was not empty, the last undo changing the machine
C1_Witness ==
    /\ run.phase = "undos" /\ run.depth = 0 /\ run.n >= 2
    /\ run.states # <<>>
    /\ run.chip.pc # ProgramStart
    /\ last.act = "update" /\ "undo" \in last.cmds
    /\ chip # last.pre

(***************************************************************************)
(* C2: a frame whose only commands are undo or rewind, given while the     *)
(* history is empty, changes neither the machine nor the history and does  *)
(* not fail.                                                               *)
(***************************************************************************)
C2_UndoOnEmptyHistory ==
    /\ last.act = "update"
    /\ last.len = 0
    /\ last.cmds # {}
    /\ last.cmds \subseteq {"undo", "rewind"}
    => /\ chip = last.pre
       /\ states = <<>>
       /\ status = "running"

\* rewind and undo in one frame on an empty history, the machine slowed
\* down before
C2_Witness ==
    /\ last.act = "update"
    /\ last.len = 0
    /\ last.cmds = {"undo", "rewind"}
    /\ chip.execution_speed = SlowSpeed

(***************************************************************************)
(* C9: the program counter is always even and within [0, 4094].            *)
(***************************************************************************)
C9_PcEvenInRange ==
    /\ chip.pc % 2 = 0
    /\ chip.pc \in 0..(MemSize - 2)

(***************************************************************************)
(* C10: in every state, after any instructions, timer ticks, steps, play   *)
(* frames and undos, every display cell holds 0 or 0xFF; so does every     *)
(* cell of the snapshots in the history.                                   *)
(***************************************************************************)
C10_DisplayCells ==
    \A d \in {chip.display} \cup {states[k].display : k \in 1..Len(states)} :
        /\ DOMAIN d \subseteq Cell
        /\ \A loc \in DOMAIN d : d[loc] \in {0, 255}

\* a play frame that drew over lit cells, putting some of them out and
\* leaving others lit
C10_Witness ==
    /\ last.act = "update" /\ "play" \in last.cmds
    /\ chip.v[15] = 1
    /\ chip.display # Zeroes
    /\ states # <<>>

(***************************************************************************)
(* C11: a timer tick decrements the delay timer by exactly 1 if it is      *)
(* positive and leaves it at 0 if it is 0, and does the same, on its own,  *)
(* for the sound timer; no timer wraps from 0 to 255.                      *)
(***************************************************************************)
C11_TimerTickClamps ==
    last.act = "timer" =>
        /\ chip.dt = (IF last.pre.dt > 0 THEN last.pre.dt - 1 ELSE 0)
        /\ chip.st = (IF last.pre.st > 0 THEN last.pre.st - 1 ELSE 0)
        /\ chip.dt \in Byte /\ chip.st \in Byte

\* a timer tick with the delay timer positive and the sound timer 0
C11_Witness ==
    /\ last.act = "timer"
    /\ last.pre.dt = 2 /\ chip.dt = 1
    /\ last.pre.st = 0 /\ chip.st = 0

\* the encodings of the instruction set: 00E0, 00EE, 1NNN, 2NNN, 3XNN, 4XNN,
\* 5XY0, 6XNN, 7XNN, 8XY0..8XY7, 8XYE, 9XY0, ANNN, BNNN, CXNN, DXYN, EX9E,
\* EXA1, FX07, FX0A, FX15, FX18, FX1E, FX29, FX33, FX55, FX65
MatchesEncoding(w) ==
    LET top == w \div 4096
        n   == w % 16
        lo  == w % 256
    IN  \/ w \in {224, 238}
        \/ top \in {1, 2, 3, 4, 6, 7, 10, 11, 12, 13}
        \/ top \in {5, 9} /\ n = 0
        \/ top = 8 /\ n \in (0 .. 7) \cup {14}
        \/ top = 14 /\ lo \in {158, 161}
        \/ top = 15 /\ lo \in {7, 10, 21, 24, 30, 41, 51, 85, 101}

\* the same with 5XYN and 9XYN for every N
MatchesEncodingAnyLowNibble(w) ==
    MatchesEncoding(w) \/ w \div 4096 \in {5, 9}

(***************************************************************************)
(* C12: a fetched word decodes to Unknown, carrying the word, exactly when *)
(* it matches none of the encodings of the instruction set.                *)
(***************************************************************************)
C12_UnknownIffNoEncoding ==
    last.act = "tick" =>
        LET w == Fetch(last.pre)
        IN  /\ LastOp.op = "Unkn" <=> ~MatchesEncoding(w)
            /\ LastOp.op = "Unkn" => LastOp.args = <<w>>

\* what the decoder does: the low nibble of 5XYN and 9XYN is not looked at
C12_UnknownIffNoEncodingAnyLowNibble ==
    last.act = "tick" =>
        LET w == Fetch(last.pre)
        IN  /\ LastOp.op = "Unkn" <=> ~MatchesEncodingAnyLowNibble(w)
            /\ LastOp.op = "Unkn" => LastOp.args = <<w>>

\* 5XY1 was executed as a skip
C12_Witness ==
    /\ last.act = "tick"
    /\ Fetch(last.pre) = 20481
    /\ status = "running"
    /\ chip.pc = ProgramStart + 4

(***************************************************************************)
(* C13: for every variant other than Unknown with operands in range, the   *)
(* word built from the variant's documented bit pattern decodes to the     *)
(* same variant with the same operands.                                    *)
(***************************************************************************)
C13_EncodeDecodeRoundTrip ==
    last.act = "tick" =>
        \A o \in OpSample : Fetch(last.pre) = Encode(o) => LastOp = o

\* DRW VF, V0, 15 was fetched and decoded
C13_Witness ==
    /\ last.act = "tick"
    /\ Fetch(last.pre) = Encode(Mk("DrawVxVyN", <<15, 0, 15>>))
    /\ LastOp = Mk("DrawVxVyN", <<15, 0, 15>>)

\* the instruction o cannot be executed by a machine whose stack is stk
IsFatal(o, stk) == o.op = "Unkn" \/ (o.op = "Ret" /\ stk = <<>>)

\* the next instruction of c is fatal
FatalDue(c) == c.pc + 2 <= MemSize /\ IsFatal(Decode(Fetch(c)), c.stack)

\* the word before the program counter of c is fatal: in the images of
\* FatalSpec that word is the last one executed, or a return reached by a
\* call that has not returned
HaltedAtFatal(c) ==
    /\ c.pc >= ProgramStart + 2
    /\ IsFatal(Decode(Fetch([c EXCEPT !.pc = @ - 2])), c.stack)

\* c is d after the fetch of one instruction that had no effect, but for the
\* execution speed
FetchedOnly(c, d) ==
    c = [d EXCEPT !.pc = @ + 2, !.execution_speed = c.execution_speed]

(***************************************************************************)
(* C14: executing a word that decodes to Unknown, or a return with an      *)
(* empty stack, halts the interpreter for good: the machine stops at that  *)
(* instruction and no instruction or timer tick follows it, whether the    *)
(* instruction was executed by a step command or by a playing frame.       *)
(***************************************************************************)
C14_FatalHalts ==
    /\ status = "running" => ~HaltedAtFatal(chip)
    /\ status = "panicked" => HaltedAtFatal(chip) /\ ~TimerDue(chip)
    /\ last.act = "update" /\ FatalDue(last.pre) =>
          /\ "step" \in last.cmds /\ ~TimerDue(last.pre) =>
                status = "panicked" /\ FetchedOnly(chip, last.pre)
          /\ ( /\ "play" \in last.cmds /\ status = "panicked"
               /\ "toggle" \in last.cmds \/ ~TimerDue(last.pre) ) =>
                FetchedOnly([chip EXCEPT !.next_tick = last.pre.next_tick,
                                         !.next_timers_tick = last.pre.next_timers_tick],
                            last.pre)

\* a playing frame that ran into the second return of CallRetImage, from
\* the start of the program
C14_Witness ==
    /\ status = "panicked"
    /\ "play" \in last.cmds
    /\ last.pre.pc = ProgramStart
    /\ chip.memory = Load(New(0, 0), CallRetImage).memory
    /\ chip.pc = ProgramStart + 6
    /\ chip.dt = 3

\* a step command that ran into the unknown word
C14_WitnessStep ==
    /\ status = "panicked"
    /\ "step" \in last.cmds
    /\ FatalDue(last.pre)
    /\ Decode(Fetch(last.pre)).op = "Unkn"

(***************************************************************************)
(* C15: ADD I, Vx completes without a fatal error for every I in 0..65535  *)
(* and every Vx, leaves I = (I + Vx) mod 65536 and changes no register,    *)
(* VF included.                                                            *)
(***************************************************************************)
C15_AddIWraps ==
    Ticked("AddIVx") =>
        /\ status = "running"
        /\ chip.i = (last.pre.i + last.pre.v[LastOp.args[1]]) % 65536
        /\ chip.v = last.pre.v

\* the same for the additions whose sum fits 16 bits
C15_AddIWithoutOverflow ==
    Ticked("AddIVx") /\ last.pre.i + last.pre.v[LastOp.args[1]] <= 65535 =>
        /\ status = "running"
        /\ chip.i = last.pre.i + last.pre.v[LastOp.args[1]]
        /\ chip.v = last.pre.v

\* an addition whose sum does not fit 16 bits ended in a panic
C15_Witness ==
    /\ Ticked("AddIVx")
    /\ last.pre.i + last.pre.v[LastOp.args[1]] > 65535
    /\ status = "panicked"

(***************************************************************************)
(* C16: LD B, Vx with I + 2 inside memory writes Vx div 100 to memory[I],  *)
(* (Vx div 10) mod 10 to memory[I + 1] and Vx mod 10 to memory[I + 2]; the *)
(* three bytes a, b, c are digits with 100a + 10b + c = Vx, and no other   *)
(* memory byte, no register and not I is changed.                          *)
(***************************************************************************)
C16_BcdDigits ==
    Ticked("LdBVx") /\ last.pre.i + 2 < MemSize =>
        LET vx == last.pre.v[LastOp.args[1]]
            i  == last.pre.i
            a  == Get(chip.memory, i)
            b  == Get(chip.memory, i + 1)
            c  == Get(chip.memory, i + 2)
        IN  /\ status = "running"
            /\ a = vx \div 100 /\ b = (vx \div 10) % 10 /\ c = vx % 10
            /\ {a, b, c} \subseteq 0 .. 9
            /\ 100 * a + 10 * b + c = vx
            /\ \A m \in (0 .. MemSize - 1) \ {i, i + 1, i + 2} :
                  Get(chip.memory, m) = Get(last.pre.memory, m)
            /\ chip.v = last.pre.v
            /\ chip.i = i

\* 157 stored as 1, 5, 7 in the last three bytes of memory
C16_Witness ==
    /\ Ticked("LdBVx")
    /\ status = "running"
    /\ last.pre.v[LastOp.args[1]] = 157
    /\ last.pre.i = MemSize - 3
    /\ Get(chip.memory, MemSize - 3) = 1
    /\ Get(chip.memory, MemSize - 2) = 5
    /\ Get(chip.memory, MemSize - 1) = 7

(***************************************************************************)
(* C17: when a playing frame's catch-up at time t returns without a fatal  *)
(* error, neither the instruction deadline nor the timer deadline is       *)
(* earlier than t.                                                         *)
(***************************************************************************)
C17_CaughtUp ==
    last.act = "update" /\ "play" \in last.cmds /\ status = "running" =>
        /\ chip.next_tick >= now
        /\ chip.next_timers_tick >= now

\* what the loop of step_with_time ensures: one of the two is not earlier
C17_OneDeadlineCaughtUp ==
    last.act = "update" /\ "play" \in last.cmds /\ status = "running" =>
        \/ chip.next_tick >= now
        \/ chip.next_timers_tick >= now

\* a playing frame that returned with the timer deadline more than a
\* quarter of a millisecond in the past
C17_Witness ==
    /\ last.act = "update" /\ last.cmds = {"play"} /\ status = "running"
    /\ chip.next_tick >= now
    /\ now - chip.next_timers_tick > NsPerMs \div 4

(***************************************************************************)
(* C18: each step_debug performs exactly one unit.  When the timer         *)
(* deadline is strictly earlier than the instruction deadline it is a      *)
(* timer tick: only the timer deadline advances, by one timer period, and  *)
(* no instruction is executed.  Otherwise it is one instruction: only the  *)
(* instruction deadline advances, by one instruction period, and the       *)
(* timers are not decremented.                                             *)
(***************************************************************************)
C18_OneUnitPerStep ==
    last.act \in {"timer", "tick"} /\ status = "running" =>
        LET p == last.pre
        IN  IF p.next_timers_tick < p.next_tick
            THEN /\ chip.next_timers_tick =
                        p.next_timers_tick + Period(TimerHz, p.execution_speed)
                 /\ chip.next_tick = p.next_tick
                 /\ chip.dt = (IF p.dt > 0 THEN p.dt - 1 ELSE 0)
                 /\ chip.st = (IF p.st > 0 THEN p.st - 1 ELSE 0)
                 /\ chip.pc = p.pc /\ chip.v = p.v /\ chip.i = p.i
                 /\ chip.memory = p.memory /\ chip.stack = p.stack
                 /\ chip.display = p.display
            ELSE /\ chip.next_tick = p.next_tick + Period(InstrHz, p.execution_speed)
                 /\ chip.next_timers_tick = p.next_timers_tick
                 /\ chip.pc = (IF LastOp.op = "Jmp" THEN LastOp.args[1] ELSE p.pc + 2)
                 /\ chip.dt = (IF LastOp.op = "LdDtVx" THEN p.v[LastOp.args[1]] ELSE p.dt)
                 /\ chip.st = (IF LastOp.op = "LdStVx" THEN p.v[LastOp.args[1]] ELSE p.st)

\* an instruction executed with both timers running
C18_Witness ==
    /\ last.act \in {"timer", "tick"} /\ status = "running"
    /\ last.pre.next_timers_tick >= last.pre.next_tick
    /\ last.pre.dt > 0 /\ chip.dt = last.pre.dt
    /\ last.pre.st > 0 /\ chip.st = last.pre.st
    /\ chip.next_tick > last.pre.next_tick

\* a timer tick that decremented both timers
C18_WitnessTimer ==
    /\ last.act \in {"timer", "tick"} /\ status = "running"
    /\ last.pre.next_timers_tick < last.pre.next_tick
    /\ last.pre.dt > 0 /\ chip.dt = last.pre.dt - 1
    /\ chip.next_timers_tick > last.pre.next_timers_tick

(***************************************************************************)
(* C19: on the frame in which the toggle command switches from Paused to   *)
(* Playing both deadlines are set to the current time before the catch-up, *)
(* so the frame executes no timer tick and at most one instruction,        *)
(* however long the machine was paused; a toggle from Playing to Paused    *)
(* does not change the deadlines.                                          *)
(***************************************************************************)
C19_ToggleResetsDeadlines ==
    last.act = "update" /\ "toggle" \in last.cmds /\ status = "running" =>
        IF "play" \in last.cmds
        THEN /\ chip.next_timers_tick \in (now - MaxSkew) .. now
             /\ \E t1 \in (now - MaxSkew) .. now :
                   \/ chip.next_tick = t1 /\ chip.pc = last.pre.pc
                   \/ chip.next_tick = t1 + Period(InstrHz, chip.execution_speed)
             /\ chip.dt = last.pre.dt \/ LastOp.op = "LdDtVx"
             /\ chip.st = last.pre.st \/ LastOp.op = "LdStVx"
        ELSE last.cmds \cap {"step", "rewind", "undo"} = {} =>
                /\ chip.next_tick = last.pre.next_tick
                /\ chip.next_timers_tick = last.pre.next_timers_tick

\* playing started after three frames or more, the old deadlines from
\* before the first frame: one instruction was executed
C19_Witness ==
    /\ last.act = "update" /\ {"toggle", "play"} \subseteq last.cmds
    /\ status = "running"
    /\ now >= 3 * FrameNs
    /\ last.pre.next_tick < FrameNs
    /\ chip.pc # last.pre.pc
    /\ chip.next_tick > now

\* playing stopped by the toggle
C19_WitnessPause ==
    /\ last.act = "update" /\ last.cmds = {"toggle"}
    /\ status = "running"
    /\ ~is_playing
    /\ chip.next_tick = last.pre.next_tick

(***************************************************************************)
(* C20: execution_speed is strictly positive in every reachable state, and *)
(* a frame whose only commands are speed commands changes nothing but      *)
(* execution_speed: the rest of the machine (memory, display, registers,   *)
(* PC, I, stack, timers, keys, deadlines), the debugger mode and the undo  *)
(* history stay as they are.                                               *)
(***************************************************************************)
SpeedCommandNames == {"faster", "slower", "normal"}

SpeedCommandFrame ==
    /\ now' # now
    /\ FrameCommands(consumable_keys, keyboard, is_playing) # {}
    /\ FrameCommands(consumable_keys, keyboard, is_playing) \subseteq SpeedCommandNames

C20_SpeedCommands ==
    /\ [](chip.execution_speed > 0)
    /\ [][SpeedCommandFrame =>
            /\ chip' = [chip EXCEPT !.execution_speed = chip'.execution_speed]
            /\ states' = states
            /\ is_playing' = is_playing /\ is_enabled' = is_enabled
            /\ status' = status]_vars

\* a frame with the slower command alone has taken the speed from 1.0 to
\* 0.1 in a machine that had executed instructions
C20_Witness ==
    /\ last.act = "update" /\ last.cmds = {"slower"}
    /\ last.pre.execution_speed = NormalSpeed
    /\ chip.execution_speed = SlowSpeed
    /\ chip.pc > ProgramStart
    /\ states # <<>>

\* s is the machine c as a frame has it before it executes: c itself, but
\* for the speed the frame's speed commands gave it and, if the frame
\* started playing, for the two deadlines
SnapshotOf(s, c, reset) ==
    s = [c EXCEPT !.execution_speed = s.execution_speed,
                  !.next_tick = IF reset THEN s.next_tick ELSE @,
                  !.next_timers_tick = IF reset THEN s.next_timers_tick ELSE @]

\* the history hist' a frame with the commands cmds makes of hist: one
\* snapshot of c pushed by a playing frame or a step command, then one
\* snapshot popped by rewind and one by undo while there is one, unless the
\* step halted the machine
HistoryAfter(hist, cmds, c, halted) ==
    LET push == IF cmds \cap {"play", "step"} # {} THEN 1 ELSE 0
        pops == IF halted THEN 0 ELSE Cardinality(cmds \cap {"rewind", "undo"})
        n    == IF Len(hist) + push >= pops THEN Len(hist) + push - pops ELSE 0
    IN  /\ Len(hist') = n
        /\ \A j \in 1 .. n :
              IF j <= Len(hist) THEN hist'[j] = hist[j]
              ELSE SnapshotOf(hist'[j], c, {"toggle", "play"} \subseteq cmds)

(***************************************************************************)
(* C21: the undo history grows by exactly one snapshot on each playing     *)
(* frame and on each step command, the snapshot being the machine as it    *)
(* was right before the frame executed; it shrinks only by one per undo or *)
(* rewind pop on a non-empty history; nothing else (speed commands, the    *)
(* toggle, key events, the execution of instructions) adds, removes or     *)
(* alters a snapshot.                                                      *)
(***************************************************************************)
C21_HistoryPushPop ==
    [][IF now' = now THEN states' = states
       ELSE HistoryAfter(states, FrameCommands(consumable_keys, keyboard, is_playing),
                         chip, status' = "panicked")]_vars

\* a playing frame has pushed the machine it started from on a history of
\* one snapshot or more, and has executed instructions
C21_Witness ==
    /\ last.act = "update" /\ last.cmds = {"play"}
    /\ last.len >= 1
    /\ Len(states) = last.len + 1
    /\ states[Len(states)] = last.pre
    /\ chip.pc # last.pre.pc

\* a frame with rewind and undo: two popped
C21_WitnessRewindUndo ==
    /\ last.act = "update" /\ last.cmds = {"rewind", "undo"}
    /\ last.len >= 2
    /\ Len(states) = last.len - 2

\* the notification that may follow prev
NextNote(prev) == IF prev = "start" THEN "stop" ELSE "start"

\* the notifications ns, printed after prev, alternate
Alternating(prev, ns) ==
    \A j \in 1 .. Len(ns) : ns[j] = NextNote(IF j = 1 THEN prev ELSE ns[j - 1])

(***************************************************************************)
(* C22: over any run of step commands, playing frames, undo and rewind the *)
(* sound notifications are edge-triggered: "start" is printed only with    *)
(* sound_timer > 0, "stop" only with sound_timer = 0, and in the sequence  *)
(* of all notifications "start" and "stop" strictly alternate, beginning   *)
(* with "start".                                                           *)
(***************************************************************************)
C22_NotesAlternate == Alternating(last.heard, last.notes)

\* what holds while the machine is only stepped: the notifications
\* alternate, and the last one tells the flag
C22_NotesFollowFlag ==
    /\ Alternating(last.heard, last.notes)
    /\ Heard(last) = "start" <=> chip.sound_playing

\* a second "start" with no "stop" between them
C22_Witness ==
    /\ last.heard = "start"
    /\ last.notes = <<"start">>

\* the keys of the speed commands
SpeedKeys == {KEY_GO_FASTER, KEY_GO_SLOWER, KEY_GO_NORMAL}

\* a key-down of k is pending and this step uses it up
Triggered(k) == consumable_keys[k] /\ ~consumable_keys'[k]

\* what a frame that does not end the process does with the key-downs
FrameTriggers ==
    \* the commands of every frame leave no key-down pending
    /\ \A k \in SpeedKeys \cup {KEY_TOGGLE_PLAY} : ~consumable_keys'[k]
    \* the mode changes, and the speed of a machine that is not restored
    \* changes, only on a pending key-down
    /\ is_playing' # is_playing => Triggered(KEY_TOGGLE_PLAY)
    /\ ( /\ chip'.execution_speed # chip.execution_speed
         /\ Len(states') >= Len(states) ) => \E k \in SpeedKeys : Triggered(k)
    /\ IF is_playing'
       THEN \* a playing frame pushes once, pops nothing and leaves the
            \* key-downs of step and undo pending
            /\ Len(states') = Len(states) + 1
            /\ SubSeq(states', 1, Len(states)) = states
            /\ consumable_keys'[KEY_STEP_DEBUG] = consumable_keys[KEY_STEP_DEBUG]
            /\ consumable_keys'[KEY_UNDO_STEP_DEBUG] =
                  consumable_keys[KEY_UNDO_STEP_DEBUG]
       ELSE \* a paused frame steps only on a pending key-down, pops with the
            \* rewind key up only on a pending key-down, and leaves neither
            \* pending unless the step halted the machine
            /\ status' = "running" =>
                  /\ ~consumable_keys'[KEY_STEP_DEBUG]
                  /\ ~consumable_keys'[KEY_UNDO_STEP_DEBUG]
            /\ ( \/ Len(states') > Len(states)
                 \/ chip'.next_tick > chip.next_tick
                 \/ chip'.next_timers_tick > chip.next_timers_tick ) =>
                  Triggered(KEY_STEP_DEBUG)
            /\ Len(states') < Len(states) /\ ~keyboard[KEY_PLAY_BACKWARD] =>
                  Triggered(KEY_UNDO_STEP_DEBUG)

(***************************************************************************)
(* C23: each key-down event of a discrete command (toggle, step, undo,     *)
(* faster, slower, normal) triggers the command in at most one frame,      *)
(* however long the key is held: a key-down becomes pending only by its    *)
(* event, a command is executed only on a pending key-down and uses it up. *)
(* A step or undo key-down received while playing executes no step or undo *)
(* in a playing frame.                                                     *)
(***************************************************************************)
C23_KeyDownTriggersOnce ==
    [][IF now' = now
       THEN \A k \in KeyCodes :
               ~consumable_keys[k] /\ consumable_keys'[k] =>
                   ~keyboard[k] /\ keyboard'[k]
       ELSE status' # "exited" => FrameTriggers]_vars

\* the step key is still held in the frame after the one that stepped, and
\* this frame did nothing
C23_Witness ==
    /\ last.act = "update" /\ last.cmds = {}
    /\ keyboard[KEY_STEP_DEBUG] /\ ~consumable_keys[KEY_STEP_DEBUG]
    /\ ~is_playing
    /\ last.len >= 1 /\ Len(states) = last.len
    /\ chip = last.pre

\* the step key went down while playing and its key-down is still pending
\* after a playing frame
C23_WitnessPlaying ==
    /\ last.act = "update" /\ last.cmds = {"play"}
    /\ is_playing
    /\ consumable_keys[KEY_STEP_DEBUG]
    /\ Len(states) = last.len + 1

(***************************************************************************)
(* C24: for all x, y in 0..F, x = F included: after SHR Vx, Vy the flag VF *)
(* is bit 0 of Vy as it was before, after SHL Vx, Vy it is bit 7 of that   *)
(* Vy; for x other than F, Vx is that Vy shifted right by one, or left by  *)
(* one modulo 256.                                                         *)
(***************************************************************************)
C24_ShiftFlag ==
    /\ Ticked("ShrVxVy") =>
          LET x == LastOp.args[1]
              vy == last.pre.v[LastOp.args[2]]
          IN  /\ chip.v[15] = vy % 2
              /\ x # 15 => chip.v[x] = vy \div 2
    /\ Ticked("ShlVxVy") =>
          LET x == LastOp.args[1]
              vy == last.pre.v[LastOp.args[2]]
          IN  /\ chip.v[15] = vy \div 128
              /\ x # 15 => chip.v[x] = (vy * 2) % 256

\* what the code does: the same for x other than F, and for x = F the flag
\* itself is shifted after it was set
C24_ShiftFlagShifted ==
    /\ Ticked("ShrVxVy") =>
          LET x == LastOp.args[1]
              vy == last.pre.v[LastOp.args[2]]
          IN  IF x = 15 THEN chip.v[15] = 0
              ELSE chip.v[15] = vy % 2 /\ chip.v[x] = vy \div 2
    /\ Ticked("ShlVxVy") =>
          LET x == LastOp.args[1]
              vy == last.pre.v[LastOp.args[2]]
          IN  IF x = 15 THEN chip.v[15] = 2 * (vy \div 128)
              ELSE chip.v[15] = vy \div 128 /\ chip.v[x] = (vy * 2) % 256

\* SHR VF, V0 with V0 = 1 left VF = 0
C24_Witness ==
    /\ Ticked("ShrVxVy")
    /\ LastOp.args = <<15, 0>>
    /\ last.pre.v[0] = 1
    /\ chip.v[15] = 0

\* the word in front of address a is a call
FollowsCall(c, a) ==
    a >= ProgramStart + 2 /\ Decode(Fetch([c EXCEPT !.pc = a - 2])).op = "Call"

(***************************************************************************)
(* C25: CALL NNN fetched at address A pushes A + 2 and sets PC to NNN;     *)
(* RET pops the address pushed last into PC.  So in a properly nested      *)
(* sequence of calls and returns every return resumes at the instruction   *)
(* after its call, and after the return of the outermost call the stack is *)
(* as it was before that call.                                             *)
(***************************************************************************)
C25_CallReturn ==
    /\ Ticked("Call") =>
          /\ chip.stack = Append(last.pre.stack, last.pre.pc + 2)
          /\ chip.pc = LastOp.args[1]
    /\ Ticked("Ret") /\ last.pre.stack # <<>> =>
          /\ chip.pc = last.pre.stack[Len(last.pre.stack)]
          /\ chip.stack = SubSeq(last.pre.stack, 1, Len(last.pre.stack) - 1)
          /\ FollowsCall(chip, chip.pc)
    /\ \A j \in 1 .. Len(chip.stack) : FollowsCall(chip, chip.stack[j])
    \* the end of the program is reached with the stack as at the start and
    \* with the instruction after the outermost call executed
    /\ status = "running" /\ Ticked("Jmp") => chip.stack = <<>> /\ chip.v[10] = 1

\* the return from the inner of two nested calls
C25_Witness ==
    /\ Ticked("Ret")
    /\ Len(last.pre.stack) = 2
    /\ chip.stack = << ProgramStart + 2 >>
    /\ chip.pc = ProgramStart + 8

\* the end of the program with the nested calls
C25_WitnessEnd ==
    /\ Ticked("Jmp")
    /\ chip.stack = <<>>
    /\ chip.v[10] = 1 /\ chip.v[11] = 2 /\ chip.v[12] = 255

(***************************************************************************)
(* C26: LD F, Vx completes without a fatal error for every Vx in 0..255,   *)
(* sets I to Vx * 5 and changes no register.                               *)
(***************************************************************************)
C26_FontAddress ==
    Ticked("LdFVx") =>
        /\ status = "running"
        /\ chip.i = last.pre.v[LastOp.args[1]] * 5
        /\ chip.v = last.pre.v

\* the same for the values whose product fits 8 bits
C26_FontAddressWithoutOverflow ==
    Ticked("LdFVx") /\ last.pre.v[LastOp.args[1]] * 5 <= 255 =>
        /\ status = "running"
        /\ chip.i = last.pre.v[LastOp.args[1]] * 5
        /\ chip.v = last.pre.v

\* Vx = 52: the load ended in a panic
C26_Witness ==
    /\ Ticked("LdFVx")
    /\ last.pre.v[LastOp.args[1]] = 52
    /\ status = "panicked"

\* Vx = 52: the load returned with I = 4
C26_WitnessWrapped ==
    /\ Ticked("LdFVx")
    /\ last.pre.v[LastOp.args[1]] = 52
    /\ status = "running"
    /\ chip.i = 4

\* the number of memory bytes from I on that the instruction o accesses
Extent(c, o) ==
    CASE o.op \in {"LdIVx", "LdVxI"} -> o.args[1] + 1
      [] o.op = "LdBVx" -> 3
      [] o.op = "DrawVxVyN" ->
            LET rows == DisplayHeight - (c.v[o.args[2]] % DisplayHeight)
            IN  IF o.args[3] < rows THEN o.args[3] ELSE rows
      [] OTHER -> 0

\* the next instruction of c indexes memory or the key state out of range
OutOfRange(c) ==
    \/ c.pc + 2 > MemSize
    \/ LET o == Decode(Fetch(c))
       IN  \/ o.op \in {"SkpVx", "SknpVx"} /\ c.v[o.args[1]] >= NumKeys
           \/ Extent(c, o) > 0 /\ c.i + Extent(c, o) > MemSize

(***************************************************************************)
(* C27: the execution of an instruction aborts only on an unknown opcode   *)
(* or on a return with an empty call stack: the fetch, the sprite rows,    *)
(* the BCD bytes and the register store and load stay within memory, and   *)
(* the key lookups of the skip instructions index the key state within     *)
(* 0..15, whatever the program, the registers and the keys are.            *)
(***************************************************************************)
C27_AbortsOnlyOnFatal ==
    status = "panicked" => last.act = "tick" /\ FatalDue(last.pre)

\* an instruction aborts exactly when it is fatal or leaves memory or the
\* key state
C27_AbortsOnFatalOrOutOfRange ==
    last.act = "tick" =>
        (status = "panicked" <=> FatalDue(last.pre) \/ OutOfRange(last.pre))

\* SKP Vx with Vx = 16 aborted
C27_Witness ==
    /\ status = "panicked"
    /\ Ticked("SkpVx")
    /\ last.pre.v[LastOp.args[1]] = NumKeys

\* a register store at the last byte of memory aborted
C27_WitnessStore ==
    /\ status = "panicked"
    /\ Ticked("LdIVx")
    /\ last.pre.i = MemSize - 1

(***************************************************************************)
(* C28: after every call of step_debug that does not abort and after every *)
(* frame of the debugger, the frames that restore a snapshot by undo or    *)
(* rewind included, sound_playing is true exactly when sound_timer > 0.    *)
(***************************************************************************)
C28_SoundFlagFollowsTimer ==
    status = "running" => (chip.sound_playing <=> chip.st > 0)

\* a frame that went back from a sounding machine to the snapshot taken
\* before the sound timer was set
C28_Witness ==
    /\ status = "running"
    /\ last.act = "update"
    /\ last.cmds \cap {"undo", "rewind"} # {}
    /\ last.pre.sound_playing
    /\ ~chip.sound_playing
    /\ chip.st = 0

\* a frame that went back to a snapshot of a sounding machine
C28_WitnessSounding ==
    /\ status = "running"
    /\ last.act = "update"
    /\ last.cmds \cap {"undo", "rewind"} # {}
    /\ chip.sound_playing
    /\ chip.st > 0
    /\ chip.pc < last.pre.pc

\* a step that ran the sound timer down to zero and lowered the flag
C28_WitnessStop ==
    /\ status = "running"
    /\ last.pre.sound_playing
    /\ last.pre.st = 1
    /\ chip.st = 0
    /\ ~chip.sound_playing

(***************************************************************************)
(* C29: a timer tick changes only delay_timer, sound_timer, the timer      *)
(* deadline and the sound flag: memory, display, registers, PC, I, the     *)
(* call stack and the key state stay as they were.  An instruction changes *)
(* delay_timer only as LD DT, Vx and sound_timer only as LD ST, Vx, which  *)
(* load Vx; no instruction decrements a timer.                             *)
(***************************************************************************)
C29_TimersApart ==
    /\ last.act = "timer" =>
          chip = [last.pre EXCEPT !.dt = chip.dt,
                                  !.st = chip.st,
                                  !.next_timers_tick = chip.next_timers_tick,
                                  !.sound_playing = chip.sound_playing]
    /\ last.act = "tick" =>
          /\ chip.dt = (IF LastOp.op = "LdDtVx" THEN last.pre.v[LastOp.args[1]]
                        ELSE last.pre.dt)
          /\ chip.st = (IF LastOp.op = "LdStVx" THEN last.pre.v[LastOp.args[1]]
                        ELSE last.pre.st)

\* a timer tick with both timers running, after an instruction that changed
\* a register
C29_Witness ==
    /\ last.act = "timer"
    /\ last.pre.dt = 3 /\ chip.dt = 2
    /\ last.pre.st = 3 /\ chip.st = 2
    /\ chip.v[0] = 255

\* an instruction other than the timer loads that changed memory while both
\* timers ran
C29_WitnessInstruction ==
    /\ Ticked("LdIVx")
    /\ last.pre.dt > 0 /\ last.pre.st > 0
    /\ chip.memory # last.pre.memory

(***************************************************************************)
(* C30: at a fixed execution speed and from equal deadlines, single steps  *)
(* starve neither the instructions nor the timers.  After every step the   *)
(* instruction deadline is ahead of the timer deadline by at most one      *)
(* instruction period, and the timer deadline ahead of the instruction     *)
(* deadline by less than one timer period; between two consecutive timer   *)
(* ticks 11 or 12 instructions are executed; and with equal deadlines the  *)
(* instruction comes first.                                                *)
(***************************************************************************)
C30_NeitherStarves ==
    /\ chip.next_tick - chip.next_timers_tick <= Period(InstrHz, chip.execution_speed)
    /\ chip.next_timers_tick - chip.next_tick < Period(TimerHz, chip.execution_speed)
    /\ \A j \in 2 .. Len(last.gaps) : last.gaps[j] \in {11, 12}
    /\ last.since <= 12
    /\ last.act \in {"timer", "tick"}
          /\ last.pre.next_tick = last.pre.next_timers_tick => last.act = "tick"

\* from equal deadlines: the fourth timer tick, after 1, 11, 12 and 12
\* instructions
C30_Witness ==
    /\ last.act = "timer"
    /\ last.gaps = << 1, 11, 12, 12 >>
    /\ chip.next_timers_tick = 4 * Period(TimerHz, chip.execution_speed)

\* the first instruction, executed with equal deadlines
C30_WitnessEqual ==
    /\ last.act = "tick"
    /\ last.pre.next_tick = last.pre.next_timers_tick

\* the machine c' after a frame with the commands cmds that popped from the
\* history hist: the snapshot popped last, which is an entry of hist or, when
\* the frame's step command pushed the machine c and the pops took it, c as
\* the step command found it
RestoredFrom(hist, cmds, c) ==
    LET push == IF "step" \in cmds THEN 1 ELSE 0
        pops == Cardinality(cmds \cap {"rewind", "undo"})
        top  == Len(hist) + push
        j    == IF top >= pops THEN top - pops + 1 ELSE 1
    IN  IF j <= Len(hist) THEN c' = hist[j] ELSE SnapshotOf(c', c, FALSE)

\* a frame that pops: undo or rewind reach a history that is not empty
PopFrame(hist, cmds) ==
    /\ cmds \cap {"rewind", "undo"} # {}
    /\ hist # <<>> \/ "step" \in cmds

(***************************************************************************)
(* C31: an undo or rewind pop on a non-empty history overwrites the whole  *)
(* live machine with the popped snapshot, the key state, the execution     *)
(* speed, the two deadlines and the sound flag included, whatever speed    *)
(* commands and keypad events came after the snapshot was taken; the pop   *)
(* leaves the mode (playing or paused) as it is.                           *)
(***************************************************************************)
C31_PopRestoresAll ==
    [][now' # now /\ status' = "running"
         /\ PopFrame(states, FrameCommands(consumable_keys, keyboard, is_playing))
       => /\ RestoredFrom(states, FrameCommands(consumable_keys, keyboard, is_playing),
                          chip)
          /\ is_playing' =
                (is_playing #
                   ("toggle" \in FrameCommands(consumable_keys, keyboard, is_playing)))
      ]_vars

\* an undo took back a step, the keypad key pressed after it and the speed
\* raised after it
C31_Witness ==
    /\ last.act = "update" /\ last.cmds = {"undo"} /\ status = "running"
    /\ last.len = 1 /\ states = <<>>
    /\ last.pre.keys[3] /\ ~chip.keys[3]
    /\ last.pre.execution_speed = NormalSpeed + SpeedStep
    /\ chip.execution_speed = NormalSpeed
    /\ chip.next_tick < last.pre.next_tick
    /\ chip.pc = ProgramStart

\* a rewind took back a timer tick and the release of a keypad key
C31_WitnessRewind ==
    /\ last.act = "update" /\ last.cmds = {"rewind"} /\ status = "running"
    /\ chip.next_timers_tick < last.pre.next_timers_tick
    /\ chip.next_tick = last.pre.next_tick
    /\ ~last.pre.keys[3] /\ chip.keys[3]

\* an undo after playing: the snapshot of the playing frame is restored and
\* the debugger stays paused
C31_WitnessPaused ==
    /\ last.act = "update" /\ last.cmds = {"undo"} /\ status = "running"
    /\ last.len = 1 /\ states = <<>>
    /\ ~is_playing
    /\ chip.next_tick > 0 /\ chip.pc = ProgramStart
    /\ last.pre.keys[3] /\ ~chip.keys[3]

=============================================================================
